---- MODULE Spec2Model ----
(***************************************************************************)
(* Model of the issue-body parser (scripts/parse-issue.ts), the Zod        *)
(* project schema (src/types/project.schema.ts) and the slug helpers of    *)
(* the awana-labs-showcase repository.                                     *)
(*                                                                         *)
(* Text is modelled as TLA+ strings, character by character: a document is *)
(* the sequence of its lines (issueBody.split("\n")), and every regular    *)
(* expression of the source is an operator over the characters.            *)
(***************************************************************************)
EXTENDS Integers, Sequences, FiniteSets, TLC

VARIABLES
    \* ---- one call of parseIssueBody(issueBody, issueNumber, createdAt, updatedAt)
    issueBody,   \* the markdown text
    issueNumber,
    createdAt,
    updatedAt,
    stage,       \* how far the call has come
    title,       \* the title taken from the first level-1 heading
    slug,        \* slugify(title); the id is the same value
    sections,    \* the six sections extractSection returned (null before)
    extracted,   \* the values taken from the sections (null before)
    missing,     \* the name logged by "Missing required field: ...", "" if none
    rawProject,  \* the draft handed to the schema (null before)
    issues,      \* the issues logged by "Validation failed ..."
    result,      \* the value returned: null or the validated record
    \* ---- slug helpers applied to a text
    text,        \* the input string
    slugP,       \* slugify of parse-issue.ts applied to text (NULL before)
    slugP2,      \* ... applied to its own output
    slugF,       \* slugify of fetch-projects.ts applied to text
    slugF2,      \* ... applied to its own output
    \* ---- one run of main() of fetch-projects.ts after the issues were fetched
    fetchedIssues, \* const issues: what fetchPublishableIssues returned
    issueIndex,    \* how many of them the for loop has taken
    projects,      \* const projects: the records of the accepted issues
    failedIssues,  \* const failedIssues: the numbers of the rejected ones
    writtenFile,   \* the data written to public/projects.json (null before)
    servedFile,    \* the JSON text the site serves as projects.json (null before)
    loaded,        \* what fetchProjects of the front end made of it (null before)
    \* ---- one run of the command line of parse-issue.ts
    cliArgs,     \* process.argv.slice(2)
    cliFile,     \* the content of the file "issue.md" (null: it cannot be read)
    cliNow,      \* what the two calls of new Date().toISOString() return
    stdout,      \* what console.log printed
    stderr,      \* what console.error printed
    exitCode,    \* the exit code of the process (null while it runs)
    \* ---- one call of fetchWithTimeout(url, options) of src/lib/api.ts
    retries,     \* options.retries
    attempt,     \* the loop variable
    retryPhase,  \* where the call is: Loop, Fetching, Waiting, Returned, Thrown
    lastError,   \* let lastError (null before the first failure)
    retryOutcome, \* the response returned or the error thrown (null before)
    fetchCalls,  \* how often fetch was called
    fetchLog,    \* how each call of fetch settled, in order
    delays,      \* how often the call waited for retryDelay
    \* ---- one call of fetchPublishableIssues() of fetch-projects.ts
    ghEnv,       \* process.env: GITHUB_TOKEN and GITHUB_REPOSITORY
    ghIssueCount, \* how many issues of the repository carry the label
    page,        \* let page
    hasMore,     \* let hasMore
    allIssues,   \* const allIssues (the numbers of the issues)
    pagePhase,   \* where the call is: Start, Loop, Awaiting, Returned, Thrown
    pageRequests, \* the pages requested, in order
    pageResponses, \* how each request was answered, in order
    pageResult,  \* the list returned or the error thrown (null before)
    \* ---- the gallery page with its ProjectModal
    catalog,     \* the projects of the gallery
    selectedProject, \* useState of ProjectsGallery: a position in catalog, 0 for null
    currentImageIndex, \* useState of ProjectModal
    effectId,    \* the project?.id the reset effect ran for last
    uiPhase,     \* Idle, Render (a state changed) or Effects (the render is committed)
    rendered     \* the project and the index of the last render (null before)

parseVars == <<issueBody, issueNumber, createdAt, updatedAt, stage, title, slug,
               sections, extracted, missing, rawProject, issues, result>>
slugVars == <<text, slugP, slugP2, slugF, slugF2>>
batchVars == <<fetchedIssues, issueIndex, projects, failedIssues, writtenFile, servedFile,
               loaded>>
\* The variables other than those of the parser and of the slug helpers
cliVars == <<cliArgs, cliFile, cliNow, stdout, stderr, exitCode>>
retryVars == <<retries, attempt, retryPhase, lastError, retryOutcome, fetchCalls, fetchLog,
               delays>>
pageVars == <<ghEnv, ghIssueCount, page, hasMore, allIssues, pagePhase, pageRequests,
              pageResponses, pageResult>>
modalVars == <<catalog, selectedProject, currentImageIndex, effectId, uiPhase, rendered>>
restVars == <<batchVars, cliVars, retryVars, pageVars, modalVars>>
vars == <<parseVars, slugVars, restVars>>
\* The variables a run of main() leaves alone
notBatchVars == <<parseVars, slugVars, cliVars, retryVars, pageVars, modalVars>>
\* The variables a run of the command line leaves alone
notCliVars == <<parseVars, slugVars, batchVars, retryVars, pageVars, modalVars>>
\* The variables a call of fetchWithTimeout leaves alone
notRetryVars == <<parseVars, slugVars, batchVars, cliVars, pageVars, modalVars>>
\* The variables a call of fetchPublishableIssues leaves alone
notPageVars == <<parseVars, slugVars, batchVars, cliVars, retryVars, modalVars>>
\* The variables the gallery page leaves alone
notModalVars == <<parseVars, slugVars, batchVars, cliVars, retryVars, pageVars>>

NULL == "<null>"

\* ---------------------------------------------------------------------------
\* Characters and strings
\* ---------------------------------------------------------------------------

UpperLetters == "ABCDEFGHIJKLMNOPQRSTUVWXYZ"
LowerLetters == "abcdefghijklmnopqrstuvwxyz"
Digits == "0123456789"

CharAt(s, i) == SubSeq(s, i, i)

\* The characters of a string, as a set
CharsOf(s) == {CharAt(s, i) : i \in 1..Len(s)}

LowerLetterSet == CharsOf(LowerLetters)
UpperLetterSet == CharsOf(UpperLetters)
DigitSet == CharsOf(Digits)

IsLowerLetter(c) == c \in LowerLetterSet
IsUpperLetter(c) == c \in UpperLetterSet
IsDigit(c) == c \in DigitSet
\* \w of a JavaScript regular expression without the u flag
IsWordChar(c) == IsLowerLetter(c) \/ IsUpperLetter(c) \/ IsDigit(c) \/ c = "_"
\* \s of a JavaScript regular expression (the white space that occurs here)
SpaceChars == {" ", "\t", "\n"}
IsSpaceChar(c) == c \in SpaceChars

\* The lowercase letter of every uppercase letter
LowerOf ==
    [c \in UpperLetterSet |->
        CharAt(LowerLetters, CHOOSE i \in 1..Len(UpperLetters) : CharAt(UpperLetters, i) = c)]

LowerChar(c) == IF IsUpperLetter(c) THEN LowerOf[c] ELSE c

\* The first of two indices that is one (0 stands for none)
OrElse(first, second) == IF first # 0 THEN first ELSE second

\* The least i in lo..hi with flags[i], or 0 when there is none (lo itself,
\* then the rest by halves, the lower half first)
RECURSIVE FirstIndex(_, _, _)
FirstIndex(flags, lo, hi) ==
    IF lo > hi THEN 0
    ELSE IF flags[lo] THEN lo
    ELSE IF lo = hi THEN 0
    ELSE OrElse(FirstIndex(flags, lo + 1, (lo + 1 + hi) \div 2),
                FirstIndex(flags, (lo + 1 + hi) \div 2 + 1, hi))

\* The greatest i in lo..hi with flags[i], or 0 when there is none
RECURSIVE LastIndex(_, _, _)
LastIndex(flags, lo, hi) ==
    IF lo > hi THEN 0
    ELSE IF flags[hi] THEN hi
    ELSE IF lo = hi THEN 0
    ELSE OrElse(LastIndex(flags, (lo + hi) \div 2, hi - 1),
                LastIndex(flags, lo, (lo + hi) \div 2 - 1))

\* The first position from pos on where s holds a character of chars, or 0
FirstChar(s, pos, chars) ==
    FirstIndex([i \in 1..Len(s) |-> CharAt(s, i) \in chars], pos, Len(s))

\* The first position from pos on where s holds a character not in chars, or 0
FirstCharNot(s, pos, chars) ==
    FirstIndex([i \in 1..Len(s) |-> CharAt(s, i) \notin chars], pos, Len(s))

\* The last position where s holds a character not in chars, or 0
LastCharNot(s, chars) ==
    LastIndex([i \in 1..Len(s) |-> CharAt(s, i) \notin chars], 1, Len(s))

\* String.prototype.trim
TrimFrom(s, a) == IF a = 0 THEN "" ELSE SubSeq(s, a, LastCharNot(s, SpaceChars))

Trim(s) == TrimFrom(s, FirstCharNot(s, 1, SpaceChars))

\* The concatenation of the strings of a sequence (by halves, so that long
\* texts do not nest deeply)
RECURSIVE ConcatRange(_, _, _)
ConcatRange(pieces, lo, hi) ==
    IF lo > hi THEN ""
    ELSE IF lo = hi THEN pieces[lo]
    ELSE LET mid == (lo + hi) \div 2
         IN ConcatRange(pieces, lo, mid) \o ConcatRange(pieces, mid + 1, hi)

ConcatAll(pieces) == ConcatRange(pieces, 1, Len(pieces))

\* String.prototype.toLowerCase
ToLowerCase(s) == ConcatAll([i \in 1..Len(s) |-> LowerChar(CharAt(s, i))])

\* String.prototype.startsWith
StartsWith(s, prefix) ==
    Len(s) >= Len(prefix) /\ SubSeq(s, 1, Len(prefix)) = prefix

EndsWith(s, suffix) ==
    Len(s) >= Len(suffix) /\ SubSeq(s, Len(s) - Len(suffix) + 1, Len(s)) = suffix

\* The rest of s from position i on
From(s, i) == SubSeq(s, i, Len(s))

\* s without its leading white space (what a greedy \s* or \s+ consumes)
FromOrEmpty(s, a) == IF a = 0 THEN "" ELSE From(s, a)

TrimStart(s) == FromOrEmpty(s, FirstCharNot(s, 1, SpaceChars))

\* String.prototype.split(sep) for a one-character separator: the pieces of
\* s from position pos on
RECURSIVE SplitFrom(_, _, _)
SplitAt(s, sep, pos, cut) ==
    IF cut = 0 THEN <<SubSeq(s, pos, Len(s))>>
    ELSE <<SubSeq(s, pos, cut - 1)>> \o SplitFrom(s, sep, cut + 1)

SplitFrom(s, sep, pos) ==
    SplitAt(s, sep, pos, FirstChar(s, pos, {sep}))

Split(s, sep) == SplitFrom(s, sep, 1)

\* Array.prototype.join(sep)
Join(parts, sep) ==
    ConcatAll([k \in 1..Len(parts) |-> IF k = 1 THEN parts[k] ELSE sep \o parts[k]])

\* Array.prototype.filter(x => x.length > 0)
RECURSIVE NonEmpty(_)
NonEmpty(parts) ==
    IF parts = <<>> THEN <<>>
    ELSE IF Head(parts) = "" THEN NonEmpty(Tail(parts))
    ELSE <<Head(parts)>> \o NonEmpty(Tail(parts))

\* A string of n copies of the character c
Repeat(c, n) == ConcatAll([i \in 1..n |-> c])

\* All strings over the characters of alphabet, of length at most n
RECURSIVE StringsUpTo(_, _)
StringsUpTo(alphabet, n) ==
    IF n = 0 THEN {""}
    ELSE LET shorter == StringsUpTo(alphabet, n - 1)
         IN shorter \cup {s \o CharAt(alphabet, i) : s \in shorter, i \in 1..Len(alphabet)}

\* ---------------------------------------------------------------------------
\* slugify of scripts/parse-issue.ts
\* ---------------------------------------------------------------------------

\* .replace(/[^\w\s-]/g, "")
RemoveSpecialChars(s) ==
    LET keep(c) == IsWordChar(c) \/ IsSpaceChar(c) \/ c = "-"
    IN ConcatAll([i \in 1..Len(s) |-> IF keep(CharAt(s, i)) THEN CharAt(s, i) ELSE ""])

\* .replace(/\s+/g, "-"): every maximal run of white space becomes one hyphen
SpacesToHyphen(s) ==
    ConcatAll([i \in 1..Len(s) |->
        IF ~IsSpaceChar(CharAt(s, i)) THEN CharAt(s, i)
        ELSE IF i > 1 /\ IsSpaceChar(CharAt(s, i - 1)) THEN "" ELSE "-"])

\* .replace(/-+/g, "-"): every maximal run of hyphens becomes one hyphen
CollapseHyphens(s) ==
    ConcatAll([i \in 1..Len(s) |->
        IF CharAt(s, i) = "-" /\ i > 1 /\ CharAt(s, i - 1) = "-" THEN "" ELSE CharAt(s, i)])

slugify(t) == Trim(CollapseHyphens(SpacesToHyphen(RemoveSpecialChars(ToLowerCase(t)))))

\* ---------------------------------------------------------------------------
\* slugify of scripts/fetch-projects.ts (exported)
\* ---------------------------------------------------------------------------

\* .replace(/[^a-z0-9]+/g, "-")
NonAlnumRunsToHyphen(s) ==
    LET alnum(c) == IsLowerLetter(c) \/ IsDigit(c)
    IN ConcatAll([i \in 1..Len(s) |->
        IF alnum(CharAt(s, i)) THEN CharAt(s, i)
        ELSE IF i > 1 /\ ~alnum(CharAt(s, i - 1)) THEN "" ELSE "-"])

\* .replace(/^-|-$/g, ""): one leading and one trailing hyphen are removed
StripEdgeHyphens(s) ==
    LET a == IF Len(s) >= 1 /\ CharAt(s, 1) = "-" THEN 2 ELSE 1
        b == IF Len(s) >= a /\ CharAt(s, Len(s)) = "-" THEN Len(s) - 1 ELSE Len(s)
    IN SubSeq(s, a, b)

slugifyExported(t) ==
    IF t = "" THEN "unknown"
    ELSE StripEdgeHyphens(NonAlnumRunsToHyphen(Trim(ToLowerCase(t))))

\* ---------------------------------------------------------------------------
\* Nullable values: <<>> is null, <<v>> is the value v
\* ---------------------------------------------------------------------------

None == <<>>
Some(v) == <<v>>
IsSome(o) == o # <<>>
Get(o) == o[1]

\* Array.prototype.map(x => x.trim())
TrimEach(parts) == [i \in 1..Len(parts) |-> Trim(parts[i])]

\* ---------------------------------------------------------------------------
\* extractSection of scripts/parse-issue.ts
\* ---------------------------------------------------------------------------

\* The length of a run that starts at position i of s and ends before position
\* other, or at the end of s when other is 0
RunLength(s, i, other) == IF other = 0 THEN Len(s) - i + 1 ELSE other - i

\* The number of # characters a string starts with
HashCount(t) == RunLength(t, 1, FirstCharNot(t, 1, {"#"}))

\* /^#{1,3}\s+/ matches the trimmed line, which starts with h # characters
HeadingStartsWith(trimmed, h) ==
    h >= 1 /\ h <= 3 /\ Len(trimmed) > h /\ IsSpaceChar(CharAt(trimmed, h + 1))

\* /^#{1,3}\s+/.test(trimmed)
IsHeadingLine(trimmed) == HeadingStartsWith(trimmed, HashCount(trimmed))

\* The capture of /^#{1,3}\s+(.+)$/i, given the text after the # characters
HeadingCapture(isHeading, afterHashes) ==
    IF isHeading /\ afterHashes # "" THEN Some(afterHashes) ELSE None

HeadingMatchWith(trimmed, h) ==
    HeadingCapture(HeadingStartsWith(trimmed, h), TrimStart(From(trimmed, h + 1)))

\* trimmed.match(/^#{1,3}\s+(.+)$/i): the captured heading text, or null
HeadingMatch(trimmed) == HeadingMatchWith(trimmed, HashCount(trimmed))

\* /^[-*_]{3,}\s*$/.test(trimmed)
RuleChars == {"-", "*", "_"}

\* The rule characters end before position other (0: they run to the end)
IsRuleUpTo(trimmed, other) ==
    /\ RunLength(trimmed, 1, other) >= 3
    /\ (other = 0 \/ FirstCharNot(trimmed, other, SpaceChars) = 0)

IsHorizontalRule(trimmed) == IsRuleUpTo(trimmed, FirstCharNot(trimmed, 1, RuleChars))

HeadingNames(m, sectionName) ==
    IsSome(m) /\ ToLowerCase(Trim(Get(m))) = ToLowerCase(sectionName)

\* The predicate of lines.findIndex in extractSection
IsSectionHeading(line, sectionName) == HeadingNames(HeadingMatch(Trim(line)), sectionName)

\* Mutation of SectionStart: the last heading with the name is taken
SectionStartLast(lines, sectionName) ==
    LastIndex([i \in 1..Len(lines) |-> IsSectionHeading(lines[i], sectionName)],
              1, Len(lines))

\* lines.findIndex(...) of extractSection, 0 standing for -1
SectionStart(lines, sectionName) ==
    FirstIndex([i \in 1..Len(lines) |-> IsSectionHeading(lines[i], sectionName)],
               1, Len(lines))

\* Mutation of EndsSection: a horizontal rule does not end the section
EndsSectionAtHeading(trimmed) == IsHeadingLine(trimmed)

EndsSection(trimmed) == IsHeadingLine(trimmed) \/ IsHorizontalRule(trimmed)

\* The line at which the loop collecting sectionLines breaks, 0 when it runs
\* to the last line
SectionStop(lines, startIndex) ==
    FirstIndex([i \in 1..Len(lines) |-> EndsSection(Trim(lines[i]))],
               startIndex + 1, Len(lines))

SectionContent(sectionLines) ==
    [raw |-> Trim(Join(sectionLines, "\n")), lines |-> TrimEach(sectionLines)]

SectionBetween(lines, startIndex, stop) ==
    SectionContent(SubSeq(lines, startIndex + 1, IF stop = 0 THEN Len(lines) ELSE stop - 1))

SectionAt(lines, startIndex) ==
    IF startIndex = 0 THEN None
    ELSE Some(SectionBetween(lines, startIndex, SectionStop(lines, startIndex)))

SectionIn(lines, sectionName) == SectionAt(lines, SectionStart(lines, sectionName))

extractSection(body, sectionName) == SectionIn(Split(body, "\n"), sectionName)

\* ---------------------------------------------------------------------------
\* extractKeyValue of scripts/parse-issue.ts
\* ---------------------------------------------------------------------------

\* The number of * characters of s from position i on
StarCount(s, i) == RunLength(s, i, FirstCharNot(s, i, {"*"}))

\* The capture of \s*(.+)$ on the text after the colon: \s* takes the leading
\* white space, and gives one character back when nothing else is left
ValueCapture(afterColon) ==
    IF afterColon = "" THEN None
    ELSE IF TrimStart(afterColon) = "" THEN Some(CharAt(afterColon, Len(afterColon)))
    ELSE Some(TrimStart(afterColon))

\* The line has n1 leading *, the key, n2 more *, and then needs the colon
KeyPatternColon(line, colon, n1, n2) ==
    IF n1 <= 2 /\ n2 <= 2 /\ Len(line) >= colon /\ CharAt(line, colon) = ":"
    THEN ValueCapture(From(line, colon + 1))
    ELSE None

KeyPatternAfterKey(line, key, n1, n2) ==
    IF Len(line) >= n1 + Len(key)
       /\ ToLowerCase(SubSeq(line, n1 + 1, n1 + Len(key))) = ToLowerCase(key)
    THEN KeyPatternColon(line, n1 + Len(key) + n2 + 1, n1, n2)
    ELSE None

KeyPatternAfterStars(line, key, n1) ==
    KeyPatternAfterKey(line, key, n1, StarCount(line, n1 + Len(key) + 1))

\* line.match(keyPattern), keyPattern being
\*   ^\*\*KEY\*\*:\s*(.+)$|^\*?\*?KEY\*?\*?:\s*(.+)$   with the flags i and m:
\* match[1] || match[2], or null when the line does not match. Every line the
\* first alternative matches the second one matches too, with the same capture.
KeyPatternMatch(line, key) == KeyPatternAfterStars(line, key, StarCount(line, 1))

\* value.replace(/^\*\*|\*\*$/g, "")
StripTrailingBold(r) == IF EndsWith(r, "**") THEN SubSeq(r, 1, Len(r) - 2) ELSE r

StripBoldMarkers(v) == StripTrailingBold(From(v, IF StartsWith(v, "**") THEN 3 ELSE 1))

\* x.trim(), then .replace(/^\*\*|\*\*$/g, "").trim()
CleanValue(v) == Trim(StripBoldMarkers(Trim(v)))

\* The first line of the section that matches the key pattern, 0 if none
KeyLine(lines, key) ==
    FirstIndex([i \in 1..Len(lines) |-> IsSome(KeyPatternMatch(lines[i], key))],
               1, Len(lines))

\* Mutation of ValueOrNextLine: the marker line of another field is not taken
\* for the value
ValueOrNextLineNoMarker(lines, i, value) ==
    IF value = "" /\ i + 1 <= Len(lines) /\ ~StartsWith(Trim(lines[i + 1]), "**")
    THEN CleanValue(lines[i + 1]) ELSE value

\* The value of the matching line i, or the next line when that value is empty
ValueOrNextLine(lines, i, value) ==
    IF value = "" /\ i + 1 <= Len(lines) THEN CleanValue(lines[i + 1]) ELSE value

KeyValueAt(lines, key, i) ==
    IF i = 0 THEN ""
    ELSE ValueOrNextLine(lines, i, CleanValue(Get(KeyPatternMatch(lines[i], key))))

KeyValueIn(lines, key) == KeyValueAt(lines, key, KeyLine(lines, key))

extractKeyValue(section, key) ==
    IF ~IsSome(section) THEN "" ELSE KeyValueIn(Get(section).lines, key)

\* ---------------------------------------------------------------------------
\* parseTags, parseDescription of scripts/parse-issue.ts
\* ---------------------------------------------------------------------------

\* Mutation of parseTags: empty pieces are kept
parseTagsKeepEmpty(section) ==
    IF ~IsSome(section) \/ Get(section).raw = "" THEN <<>>
    ELSE TrimEach(Split(Get(section).raw, ","))

parseTags(section) ==
    IF ~IsSome(section) \/ Get(section).raw = "" THEN <<>>
    ELSE NonEmpty(TrimEach(Split(Get(section).raw, ",")))

\* Mutation of parseDescription: the lines are joined by a single line break
parseDescriptionSingleBreak(section) ==
    IF ~IsSome(section) \/ Get(section).raw = "" THEN ""
    ELSE Join(NonEmpty(TrimEach(Split(Get(section).raw, "\n"))), "\n")

parseDescription(section) ==
    IF ~IsSome(section) \/ Get(section).raw = "" THEN ""
    ELSE Join(NonEmpty(TrimEach(Split(Get(section).raw, "\n"))), "\n\n")

\* ---------------------------------------------------------------------------
\* extractLogo, parseImages, parseNotes of scripts/parse-issue.ts
\* ---------------------------------------------------------------------------

\* Whether the text from position i on starts with http:// or https://
\* (in any case) followed by a character that is not white space
UrlPrefixAt(s, i, lowered) ==
    \/ StartsWith(lowered, "http://") /\ Len(s) >= i + 7 /\ ~IsSpaceChar(CharAt(s, i + 7))
    \/ StartsWith(lowered, "https://") /\ Len(s) >= i + 8 /\ ~IsSpaceChar(CharAt(s, i + 8))

\* Whether /https?:\/\/[^\s]+/i matches s at position i
UrlStartsAt(s, i) ==
    UrlPrefixAt(s, i, ToLowerCase(SubSeq(s, i, IF Len(s) < i + 7 THEN Len(s) ELSE i + 7)))

\* The position before position next, the last one of s when next is 0
EndBefore(s, next) == IF next = 0 THEN Len(s) ELSE next - 1

\* The last position of the run of non-space characters that holds position i
RunEnd(s, i) == EndBefore(s, FirstChar(s, i, SpaceChars))

\* The first position from pos on where the URL pattern matches, 0 if none
UrlIndex(s, pos) ==
    FirstIndex([i \in 1..Len(s) |-> UrlStartsAt(s, i)], pos, Len(s))

UrlAt(s, at) == IF at = 0 THEN None ELSE Some(SubSeq(s, at, RunEnd(s, at)))

\* line.match(/https?:\/\/[^\s]+/i): the first match, or null
FirstUrl(line) == UrlAt(line, UrlIndex(line, 1))

\* searchText.matchAll(/https?:\/\/[^\s]+/gi): every match from position pos
\* on, in order, each search resuming after the previous match
RECURSIVE UrlsFrom(_, _)
UrlsBetween(s, at, end) == <<SubSeq(s, at, end)>> \o UrlsFrom(s, end + 1)
UrlsAt(s, at) == IF at = 0 THEN <<>> ELSE UrlsBetween(s, at, RunEnd(s, at))
UrlsFrom(s, pos) == UrlsAt(s, UrlIndex(s, pos))

\* lines.findIndex(line => line.toLowerCase().startsWith(marker)), 0 for -1
MarkerLine(lines, marker) ==
    FirstIndex([i \in 1..Len(lines) |-> StartsWith(ToLowerCase(lines[i]), marker)],
               1, Len(lines))

\* Mutation of LogoUrl: the next line is not looked at
LogoUrlOnLine(onLine, hasNext, onNext) ==
    IF IsSome(onLine) THEN Trim(Get(onLine)) ELSE ""

\* The URL of the line, or of the next line when this one holds none
LogoUrl(onLine, hasNext, onNext) ==
    IF IsSome(onLine) THEN Trim(Get(onLine))
    ELSE IF hasNext /\ IsSome(onNext) THEN Trim(Get(onNext))
    ELSE ""

LogoAt(lines, logoIndex) ==
    IF logoIndex = 0 THEN ""
    ELSE LogoUrl(FirstUrl(lines[logoIndex]),
                 logoIndex + 1 <= Len(lines),
                 FirstUrl(lines[IF logoIndex + 1 <= Len(lines) THEN logoIndex + 1
                                ELSE logoIndex]))

extractLogo(section) ==
    IF ~IsSome(section) THEN ""
    ELSE LogoAt(Get(section).lines, MarkerLine(Get(section).lines, "**logo"))

\* Array.prototype.filter(url => url && url !== excluded)
RECURSIVE Without(_, _)
Without(urls, excluded) ==
    IF urls = <<>> THEN <<>>
    ELSE IF Head(urls) = "" \/ Head(urls) = excluded THEN Without(Tail(urls), excluded)
    ELSE <<Head(urls)>> \o Without(Tail(urls), excluded)

\* Mutation of ImagesAfter: the URLs of all lines are taken, with or without an
\* Images marker
ImagesOfAllLines(lines, imagesIndex, logoUrl) ==
    Without(TrimEach(UrlsFrom(Join(lines, "\n"), 1)), logoUrl)

\* The URLs of the lines after the Images marker (of all lines without one),
\* the logo left out
ImagesAfter(lines, imagesIndex, logoUrl) ==
    Without(TrimEach(UrlsFrom(Join(SubSeq(lines,
                                          IF imagesIndex = 0 THEN 1 ELSE imagesIndex + 1,
                                          Len(lines)),
                                   "\n"), 1)),
            logoUrl)

parseImages(section) ==
    IF ~IsSome(section) \/ Get(section).raw = "" THEN <<>>
    ELSE ImagesAfter(Get(section).lines,
                     MarkerLine(Get(section).lines, "**images"),
                     extractLogo(section))

\* sameLineContent.replace(/\*+/g, "")
RemoveAsterisks(s) ==
    ConcatAll([i \in 1..Len(s) |-> IF CharAt(s, i) = "*" THEN "" ELSE CharAt(s, i)])

\* The text of the marker line after its first colon, without asterisks
SameLineContent(markerLine, colonIndex) ==
    IF colonIndex = 0 THEN ""
    ELSE Trim(RemoveAsterisks(Trim(From(markerLine, colonIndex + 1))))

\* Mutation of NotesStop: the loop never breaks
NotesStopNever(lines, notesIndex) == 0

\* The line after the marker at which the loop collecting notesLines breaks
NotesStop(lines, notesIndex) ==
    FirstIndex([i \in 1..Len(lines) |-> StartsWith(lines[i], "**")],
               notesIndex + 1, Len(lines))

NotesLines(lines, notesIndex, stop) ==
    NonEmpty(SubSeq(lines, notesIndex + 1, IF stop = 0 THEN Len(lines) ELSE stop - 1))

AllNotes(sameLineContent, notesLines) ==
    Trim(Join(IF sameLineContent # "" THEN <<sameLineContent>> \o notesLines
              ELSE notesLines, " "))

NotesAt(lines, notesIndex) ==
    IF notesIndex = 0 THEN ""
    ELSE AllNotes(SameLineContent(lines[notesIndex], FirstChar(lines[notesIndex], 1, {":"})),
                  NotesLines(lines, notesIndex, NotesStop(lines, notesIndex)))

parseNotes(section) ==
    IF ~IsSome(section) \/ Get(section).raw = "" THEN ""
    ELSE NotesAt(Get(section).lines, MarkerLine(Get(section).lines, "**notes"))

\* ---------------------------------------------------------------------------
\* The title of parseIssueBody
\* ---------------------------------------------------------------------------

\* The position of the end of the line that holds position i
LineEnd(s, i) == EndBefore(s, FirstChar(s, i, {"\n"}))

\* The first position where a line starts with # and white space, 0 if none
TitleHash(body) ==
    FirstIndex([p \in 1..(Len(body) - 1) |->
                   /\ CharAt(body, p) = "#"
                   /\ (p = 1 \/ CharAt(body, p - 1) = "\n")
                   /\ IsSpaceChar(CharAt(body, p + 1))],
               1, Len(body) - 1)

TitleFrom(body, first) ==
    IF first = 0 THEN "" ELSE Trim(SubSeq(body, first, LineEnd(body, first)))

TitleAfter(body, hash) ==
    IF hash = 0 THEN "" ELSE TitleFrom(body, FirstCharNot(body, hash + 1, SpaceChars))

\* issueBody.match(/^#\s+(.+)$/m), then titleMatch[1].trim(), "" without a
\* match. With the m flag ^ is the start of any line; \s+ is greedy and also
\* consumes line breaks, so the capture starts at the first character after the
\* # that is not white space, on that line or a later one, and runs to the end
\* of its line. When nothing but white space follows the #, a capture can only
\* be white space, which trims to "".
extractTitle(body) == TitleAfter(body, TitleHash(body))

\* ---------------------------------------------------------------------------
\* The Zod schema of src/types/project.schema.ts
\* ---------------------------------------------------------------------------

MaxTitleLength == 200
MaxDescriptionLength == 2000
MaxShortNameLength == 50
MaxTagLength == 50

ProjectStateEnum == {"active", "paused", "archived"}
ProjectUsageEnum == {"experimental", "used", "widely-used"}

\* Whether every character of s is one of chars
AllChars(s, chars) == \A i \in 1..Len(s) : CharAt(s, i) \in chars

\* Whether no character of s is one of chars
NoChars(s, chars) == \A i \in 1..Len(s) : CharAt(s, i) \notin chars

SlugChars == LowerLetterSet \cup DigitSet \cup {"-"}

\* slug: .regex(/^[a-z0-9-]+$/)
MatchesSlugPattern(s) == Len(s) >= 1 /\ AllChars(s, SlugChars)

SchemeChars == LowerLetterSet \cup DigitSet \cup {"+", "-", "."}
Slashes == {"/", "\\"}
HostEndChars == {"/", "?", "#", "\\"}
ForbiddenHostChars == {" ", "\t", "\n", "<", ">", "[", "]", "^", "|", "@", "%"}

\* The host and the port of an authority, the port after its first colon
IsValidHostPort(auth, colon) ==
    /\ (IF colon = 0 THEN auth ELSE SubSeq(auth, 1, colon - 1)) # ""
    /\ NoChars(IF colon = 0 THEN auth ELSE SubSeq(auth, 1, colon - 1), ForbiddenHostChars)
    /\ AllChars(IF colon = 0 THEN "" ELSE From(auth, colon + 1), DigitSet)

IsValidAuthority(auth) == IsValidHostPort(auth, FirstChar(auth, 1, {":"}))

\* The authority runs to the first /, ? or #
AuthorityUpTo(afterSlashes, end) ==
    IF end = 0 THEN afterSlashes ELSE SubSeq(afterSlashes, 1, end - 1)

AuthorityOf(afterSlashes) == AuthorityUpTo(afterSlashes, FirstChar(afterSlashes, 1, HostEndChars))

\* The text after the scheme, its leading slashes skipped
AfterSlashes(rest, first) == IF first = 0 THEN "" ELSE From(rest, first)

HasValidHost(rest) ==
    IsValidAuthority(AuthorityOf(AfterSlashes(rest, FirstCharNot(rest, 1, Slashes))))

IsUrlWithScheme(scheme, rest) ==
    /\ scheme # ""
    /\ IsLowerLetter(CharAt(scheme, 1))
    /\ AllChars(scheme, SchemeChars)
    /\ scheme \in {"http", "https"} => HasValidHost(rest)

IsUrlSplitAt(s, colon) ==
    colon # 0 /\ IsUrlWithScheme(ToLowerCase(SubSeq(s, 1, colon - 1)), From(s, colon + 1))

\* z.string().url(): the string parses as an absolute URL (new URL(s)). It
\* needs a scheme, a letter followed by letters, digits, +, - or ., and then a
\* colon; an http or https URL also needs a host, which holds no forbidden
\* character and runs to the first /, ? or #, with an optional numeric port.
IsUrl(s) == IsUrlSplitAt(s, FirstChar(s, 1, {":"}))

\* z.string().datetime(): YYYY-MM-DDTHH:MM:SS, an optional fraction, then Z
\* (no offset, no missing seconds)
IsIsoDatetime(s) ==
    LET digitsAt(S) == \A i \in S : IsDigit(CharAt(s, i))
    IN /\ Len(s) >= 20
       /\ digitsAt({1, 2, 3, 4, 6, 7, 9, 10, 12, 13, 15, 16, 18, 19})
       /\ CharAt(s, 5) = "-" /\ CharAt(s, 8) = "-" /\ CharAt(s, 11) = "T"
       /\ CharAt(s, 14) = ":" /\ CharAt(s, 17) = ":"
       /\ CharAt(s, Len(s)) = "Z"
       /\ Len(s) > 20 => /\ CharAt(s, 20) = "."
                         /\ Len(s) >= 22
                         /\ digitsAt(21..(Len(s) - 1))

Issue(path, message) == [path |-> path, message |-> message]

\* One issue when the check fails, none when it passes
Check(passes, path, message) == IF passes THEN <<>> ELSE <<Issue(path, message)>>

\* The issues of the elements of an array from the i-th on, in order; passes
\* tells for each element whether it passes its check
RECURSIVE EachIssues(_, _, _, _)
EachIssues(passes, i, path, message) ==
    IF i > Len(passes) THEN <<>>
    ELSE Check(passes[i], path \o "." \o ToString(i - 1), message)
            \o EachIssues(passes, i + 1, path, message)

\* Mutation of organizationSchema: the short name has no maximum length
organizationSchemaNoMax(o) ==
    Check(Len(o.name) >= 1, "organization.name", "Organization name is required")
    \o Check(Len(o.short_name) >= 1, "organization.short_name",
             "Organization short name is required")
    \o Check(IsUrl(o.url), "organization.url", "Organization URL must be a valid URL")

organizationSchema(o) ==
    Check(Len(o.name) >= 1, "organization.name", "Organization name is required")
    \o Check(Len(o.short_name) >= 1, "organization.short_name",
             "Organization short name is required")
    \o Check(Len(o.short_name) <= MaxShortNameLength, "organization.short_name",
             "Short name must be 50 characters or less")
    \o Check(IsUrl(o.url), "organization.url", "Organization URL must be a valid URL")

\* Mutation of statusSchema: the usage is not checked
statusSchemaStateOnly(st) ==
    Check(st.state \in ProjectStateEnum, "status.state",
          "State must be one of: active, paused, archived")

statusSchema(st) ==
    Check(st.state \in ProjectStateEnum, "status.state",
          "State must be one of: active, paused, archived")
    \o Check(st.usage \in ProjectUsageEnum, "status.usage",
             "Usage must be one of: experimental, used, widely-used")

\* logo: z.string().url().optional().default(""): the default replaces only an
\* undefined logo; a logo that is a string, "" included, is checked as a URL
mediaSchema(m) ==
    Check(IsUrl(m.logo), "media.logo", "Logo must be a valid URL")
    \o EachIssues([i \in 1..Len(m.images) |-> IsUrl(m.images[i])], 1,
                  "media.images", "Image URLs must be valid")

\* repository and documentation: as for the logo
linksSchema(l) ==
    Check(IsUrl(l.homepage), "links.homepage", "Homepage must be a valid URL")
    \o Check(IsUrl(l.repository), "links.repository", "Repository must be a valid URL")
    \o Check(IsUrl(l.documentation), "links.documentation",
             "Documentation must be a valid URL")

timestampsSchema(t) ==
    Check(IsIsoDatetime(t.created_at), "timestamps.created_at",
          "Created at must be a valid ISO 8601 datetime")
    \o Check(IsIsoDatetime(t.last_updated_at), "timestamps.last_updated_at",
             "Last updated at must be a valid ISO 8601 datetime")

tagsSchema(tags) ==
    EachIssues([i \in 1..Len(tags) |-> Len(tags[i]) >= 1], 1, "tags",
               "String must contain at least 1 character(s)")
    \o Check(\A i \in 1..Len(tags) : Len(tags[i]) <= MaxTagLength, "tags",
             "All tags must be 50 characters or less")

\* The issues projectSchema finds in a draft, in the order of its keys; every
\* check of every key runs, whatever the checks before it found
projectSchema(d) ==
    Check(Len(d.id) >= 1, "id", "Project ID is required")
    \o Check(d.issue_number > 0, "issue_number", "Issue number must be a positive integer")
    \o Check(Len(d.title) >= 1, "title", "Project title is required")
    \o Check(Len(d.title) <= MaxTitleLength, "title", "Title must be 200 characters or less")
    \o Check(Len(d.slug) >= 1, "slug", "Slug is required")
    \o Check(MatchesSlugPattern(d.slug), "slug",
             "Slug must contain only lowercase letters, numbers, and hyphens")
    \o Check(Len(d.description) >= 1, "description", "Description is required")
    \o Check(Len(d.description) <= MaxDescriptionLength, "description",
             "Description must be 2000 characters or less")
    \o organizationSchema(d.organization)
    \o statusSchema(d.status)
    \o tagsSchema(d.tags)
    \o mediaSchema(d.media)
    \o linksSchema(d.links)
    \o timestampsSchema(d.timestamps)

\* Mutation of ParseResult: validation stops at the first issue
ParseResultFirstIssue(d, found) ==
    [success |-> found = <<>>,
     data |-> IF found = <<>> THEN Some(d) ELSE None,
     issues |-> IF found = <<>> THEN <<>> ELSE <<Head(found)>>]

\* The result of safeParse: success with the data, or failure with every issue
ParseResult(d, found) ==
    [success |-> found = <<>>,
     data |-> IF found = <<>> THEN Some(d) ELSE None,
     issues |-> found]

\* projectSchema.safeParse(data): never throws
safeParse(d) == ParseResult(d, projectSchema(d))

\* validateProject(data)
validateProject(d) == safeParse(d)

\* ---------------------------------------------------------------------------
\* parseIssueBody of scripts/parse-issue.ts, stage by stage
\* ---------------------------------------------------------------------------

Stages == {"Start", "TitleExtracted", "SectionsExtracted", "RequiredFieldsChecked",
           "Validated", "Rejected"}

\* parseImages(mediaSection).filter(url => url !== logo)
ImagesExceptLogo(images, logo) ==
    LET differs(url) == url # logo IN SelectSeq(images, differs)

\* The values taken from the six sections
FieldsOf(descriptionSection, organizationSection, statusSection, tagsSection, mediaSection, linksSection) ==
    [orgName |-> extractKeyValue(organizationSection, "Name"),
     orgShortName |-> extractKeyValue(organizationSection, "Short name"),
     orgUrl |-> extractKeyValue(organizationSection, "Website"),
     statusState |-> extractKeyValue(statusSection, "State"),
     statusUsage |-> extractKeyValue(statusSection, "Usage"),
     statusNotes |-> parseNotes(statusSection),
     tags |-> parseTags(tagsSection),
     logo |-> extractLogo(mediaSection),
     images |-> ImagesExceptLogo(parseImages(mediaSection), extractLogo(mediaSection)),
     homepage |-> extractKeyValue(linksSection, "Homepage"),
     repository |-> extractKeyValue(linksSection, "Repository"),
     documentation |-> extractKeyValue(linksSection, "Documentation"),
     description |-> parseDescription(descriptionSection)]

\* The six sections among the lines of the body; SectionIn(lines, name) is
\* extractSection(body, name)
SectionsIn(lines) ==
    [descriptionSection |-> SectionIn(lines, "Description"),
     organizationSection |-> SectionIn(lines, "Organization"),
     statusSection |-> SectionIn(lines, "Project Status"),
     tagsSection |-> SectionIn(lines, "Tags"),
     mediaSection |-> SectionIn(lines, "Media"),
     linksSection |-> SectionIn(lines, "Links")]

\* Mutation of FieldsOfSections: the images are all the URLs of the Media
\* section
FieldsOfSectionsAllUrls(s) ==
    [FieldsOf(s.descriptionSection, s.organizationSection, s.statusSection,
              s.tagsSection, s.mediaSection, s.linksSection)
        EXCEPT !.images = IF IsSome(s.mediaSection)
                          THEN UrlsFrom(Get(s.mediaSection).raw, 1) ELSE <<>>]

\* The values taken from the six sections
FieldsOfSections(s) ==
    FieldsOf(s.descriptionSection, s.organizationSection, s.statusSection,
             s.tagsSection, s.mediaSection, s.linksSection)

\* The six sections among the lines of the body, and the values taken from
\* them
FieldsIn(lines) == FieldsOfSections(SectionsIn(lines))

extractAll(body) == FieldsIn(Split(body, "\n"))

\* The entries of requiredFields, in the order of Object.entries
RequiredFieldNames ==
    <<"title", "description", "orgName", "orgShortName", "orgUrl", "statusState", "homepage">>

RequiredFieldValue(t, e, name) == IF name = "title" THEN t ELSE e[name]

\* !value || value.trim() === ""
IsMissing(value) == value = "" \/ Trim(value) = ""

\* The entry at which the loop over requiredFields returns, 0 when it ends
FirstMissingIndex(t, e) ==
    FirstIndex([k \in 1..Len(RequiredFieldNames) |->
                   IsMissing(RequiredFieldValue(t, e, RequiredFieldNames[k]))],
               1, Len(RequiredFieldNames))

MissingName(k) == IF k = 0 THEN "" ELSE RequiredFieldNames[k]

\* Mutation of firstMissingField: the loop runs on and the last empty entry is
\* the one reported
lastMissingField(t, e) ==
    MissingName(LastIndex([k \in 1..Len(RequiredFieldNames) |->
                              IsMissing(RequiredFieldValue(t, e, RequiredFieldNames[k]))],
                          1, Len(RequiredFieldNames)))

\* The field the loop over requiredFields reports, "" when it reports none
firstMissingField(t, e) == MissingName(FirstMissingIndex(t, e))

\* Mutation of buildRawProject: a missing usage defaults to a member of the
\* enumeration
buildRawProjectValidDefault(t, sl, e, number, created, updated) ==
    [id |-> sl,
     issue_number |-> number,
     title |-> t,
     slug |-> sl,
     description |-> e.description,
     organization |-> [name |-> e.orgName, short_name |-> e.orgShortName, url |-> e.orgUrl],
     status |-> [state |-> e.statusState,
                 usage |-> IF e.statusUsage # "" THEN e.statusUsage ELSE "experimental",
                 notes |-> e.statusNotes],
     tags |-> e.tags,
     media |-> [logo |-> e.logo, images |-> e.images],
     links |-> [homepage |-> e.homepage,
                repository |-> e.repository,
                documentation |-> e.documentation],
     timestamps |-> [created_at |-> created, last_updated_at |-> updated]]

\* Mutation of buildRawProject: the two links take each other's place
buildRawProjectLinksSwapped(t, sl, e, number, created, updated) ==
    [id |-> sl,
     issue_number |-> number,
     title |-> t,
     slug |-> sl,
     description |-> e.description,
     organization |-> [name |-> e.orgName, short_name |-> e.orgShortName, url |-> e.orgUrl],
     status |-> [state |-> e.statusState,
                 usage |-> IF e.statusUsage # "" THEN e.statusUsage ELSE "unknown",
                 notes |-> e.statusNotes],
     tags |-> e.tags,
     media |-> [logo |-> e.logo, images |-> e.images],
     links |-> [homepage |-> IF e.repository # "" THEN e.repository ELSE "",
                repository |-> e.homepage,
                documentation |-> IF e.documentation # "" THEN e.documentation ELSE ""],
     timestamps |-> [created_at |-> created, last_updated_at |-> updated]]

\* Mutation of buildRawProject: the creation time is written to both timestamps
buildRawProjectCreatedTwice(t, sl, e, number, created, updated) ==
    [id |-> sl,
     issue_number |-> number,
     title |-> t,
     slug |-> sl,
     description |-> e.description,
     organization |-> [name |-> e.orgName, short_name |-> e.orgShortName, url |-> e.orgUrl],
     status |-> [state |-> e.statusState,
                 usage |-> IF e.statusUsage # "" THEN e.statusUsage ELSE "unknown",
                 notes |-> e.statusNotes],
     tags |-> e.tags,
     media |-> [logo |-> e.logo, images |-> e.images],
     links |-> [homepage |-> e.homepage,
                repository |-> IF e.repository # "" THEN e.repository ELSE "",
                documentation |-> IF e.documentation # "" THEN e.documentation ELSE ""],
     timestamps |-> [created_at |-> created, last_updated_at |-> created]]

\* The rawProject object
buildRawProject(t, sl, e, number, created, updated) ==
    [id |-> sl,
     issue_number |-> number,
     title |-> t,
     slug |-> sl,
     description |-> e.description,
     organization |-> [name |-> e.orgName, short_name |-> e.orgShortName, url |-> e.orgUrl],
     status |-> [state |-> e.statusState,
                 usage |-> IF e.statusUsage # "" THEN e.statusUsage ELSE "unknown",
                 notes |-> e.statusNotes],
     tags |-> e.tags,
     media |-> [logo |-> e.logo, images |-> e.images],
     links |-> [homepage |-> e.homepage,
                repository |-> IF e.repository # "" THEN e.repository ELSE "",
                documentation |-> IF e.documentation # "" THEN e.documentation ELSE ""],
     timestamps |-> [created_at |-> created, last_updated_at |-> updated]]

\* if (!title) return null; otherwise the slug is taken from the title
TitleStep(t) ==
    IF t = ""
    THEN /\ stage' = "Rejected"
         /\ UNCHANGED <<title, slug>>
    ELSE /\ stage' = "TitleExtracted"
         /\ title' = t
         /\ slug' = slugify(t)

\* The title, or null at once without one
ExtractTitle ==
    /\ stage = "Start"
    /\ TitleStep(extractTitle(issueBody))
    /\ UNCHANGED <<issueBody, issueNumber, createdAt, updatedAt, sections, extracted,
                   missing, rawProject, issues, result, slugVars, restVars>>

\* The sections and their values
ExtractSections ==
    /\ stage = "TitleExtracted"
    /\ sections' = Some(SectionsIn(Split(issueBody, "\n")))
    /\ extracted' = Some(FieldsOfSections(Get(sections')))
    /\ stage' = "SectionsExtracted"
    /\ UNCHANGED <<issueBody, issueNumber, createdAt, updatedAt, title, slug, missing,
                   rawProject, issues, result, slugVars, restVars>>

\* The required fields: null at the first one that is empty
CheckRequiredFields ==
    /\ stage = "SectionsExtracted"
    /\ missing' = firstMissingField(title, Get(extracted))
    /\ stage' = IF missing' = "" THEN "RequiredFieldsChecked" ELSE "Rejected"
    /\ UNCHANGED <<issueBody, issueNumber, createdAt, updatedAt, title, slug, sections,
                   extracted, rawProject, issues, result, slugVars, restVars>>

\* Mutation of SchemaStep: the draft is returned whatever the schema found
SchemaStepUngated(validationResult) ==
    /\ issues' = validationResult.issues
    /\ result' = rawProject'
    /\ stage' = "Validated"

\* if (!validationResult.success) return null; return validationResult.data
SchemaStep(validationResult) ==
    /\ issues' = validationResult.issues
    /\ result' = validationResult.data
    /\ stage' = IF validationResult.success THEN "Validated" ELSE "Rejected"

\* The raw project is built and validated with the schema
ValidateSchema ==
    /\ stage = "RequiredFieldsChecked"
    /\ rawProject' = Some(buildRawProject(title, slug, Get(extracted), issueNumber,
                                          createdAt, updatedAt))
    /\ SchemaStep(safeParse(Get(rawProject')))
    /\ UNCHANGED <<issueBody, issueNumber, createdAt, updatedAt, title, slug, sections,
                   extracted, missing, slugVars, restVars>>

\* ---------------------------------------------------------------------------
\* The values of the variables of an operation that is not running
\* ---------------------------------------------------------------------------

SlugIdle ==
    text = "" /\ slugP = NULL /\ slugP2 = NULL /\ slugF = NULL /\ slugF2 = NULL

ParseIdle ==
    /\ issueBody = "" /\ issueNumber = 0 /\ createdAt = "" /\ updatedAt = ""
    /\ stage = "Rejected" /\ title = "" /\ slug = "" /\ sections = None /\ extracted = None
    /\ missing = "" /\ rawProject = None /\ issues = <<>> /\ result = None

BatchIdle ==
    /\ fetchedIssues = <<>> /\ issueIndex = 0 /\ projects = <<>> /\ failedIssues = <<>>
    /\ writtenFile = Some([projects |-> <<>>])
    /\ servedFile = None /\ loaded = Some([success |-> FALSE, data |-> None, issues |-> <<>>])

CliIdle ==
    /\ cliArgs = <<>> /\ cliFile = None /\ cliNow = <<>>
    /\ stdout = <<>> /\ stderr = <<>> /\ exitCode = Some(0)

RetryIdle ==
    /\ retries = 0 /\ attempt = 0 /\ retryPhase = "Thrown" /\ lastError = None
    /\ retryOutcome = None /\ fetchCalls = 0 /\ fetchLog = <<>> /\ delays = 0

PageIdle ==
    /\ ghEnv = <<>> /\ ghIssueCount = 0 /\ page = 1 /\ hasMore = FALSE /\ allIssues = <<>>
    /\ pagePhase = "Thrown" /\ pageRequests = <<>> /\ pageResponses = <<>> /\ pageResult = None

ModalIdle ==
    /\ catalog = <<>> /\ selectedProject = 0 /\ currentImageIndex = 0 /\ effectId = NULL
    /\ uiPhase = "Idle" /\ rendered = None

RestIdle == BatchIdle /\ CliIdle /\ RetryIdle /\ PageIdle /\ ModalIdle

\* Every operation but g is idle
IdleBut(g) ==
    /\ IF g = "parse" THEN TRUE ELSE ParseIdle
    /\ IF g = "slug" THEN TRUE ELSE SlugIdle
    /\ IF g = "batch" THEN TRUE ELSE BatchIdle
    /\ IF g = "cli" THEN TRUE ELSE CliIdle
    /\ IF g = "retry" THEN TRUE ELSE RetryIdle
    /\ IF g = "page" THEN TRUE ELSE PageIdle
    /\ IF g = "modal" THEN TRUE ELSE ModalIdle

\* ---------------------------------------------------------------------------
\* The inputs of parseIssueBody: the issue template filled in, with some of its
\* parts replaced by a variant
\* ---------------------------------------------------------------------------

ValidTimestamp == "2026-02-03T18:34:20Z"

\* The parts of an issue body in order, each with its variants; the first
\* variant of every part is the well-formed one
BodyParts ==
    << \* the title
       << "# My Tool\n",
          "",
          "#\nMy Tool\n",
          "# a_b\n",
          "# -My.Tool-\n",
          "# " \o Repeat("a", MaxTitleLength + 1) \o "\n",
          "# CoMapeo Config Spreadsheet Plugin\n" >>,
       \* Description
       << "## Description\nA tool.\n",
          "",
          "## Description\n\n",
          "## Description\n" \o Repeat("d", MaxDescriptionLength + 1) \o "\n",
          "## Description\n  First line. \n\nSecond line.\n" >>,
       \* Organization: Name, Short name, Website
       << "## Organization\n**Name:** Org\n",
          "## Organization\n",
          "## Organization\n**Name:**\n" >>,
       << "**Short name:** org\n",
          "",
          "**Short name:** " \o Repeat("s", MaxShortNameLength + 1) \o "\n",
          "**Short name:**\n" >>,
       << "**Website:** https://o.io\n",
          "",
          "**Website:** o.io\n" >>,
       \* Project Status: State, Usage, Notes
       << "## Project Status\n**State:** active\n",
          "## Project Status\n**State:** paused\n",
          "## Project Status\n**State:** unknown\n",
          "## Project Status\n" >>,
       << "**Usage:** used\n",
          "",
          "**Usage:** often\n" >>,
       << "**Notes:** n1\n",
          "" >>,
       \* Tags
       << "## Tags\nA, B\n",
          "",
          "## Tags\nA, " \o Repeat("t", MaxTagLength + 1) \o "\n",
          "## Tags\nCoMapeo, Mapping, Spreadsheet\n",
          "## Tags\n a,, B ,a\n",
          "## Tags\n\n" >>,
       \* Media: Logo, Images
       << "## Media\n**Logo:**\nhttps://o.io/l.png\n",
          "## Media\n",
          "## Media\n**Images:**\n- https://o.io/l.png\n**Logo:** https://o.io/l.png\n" >>,
       << "**Images:**\n- https://o.io/1.png\n",
          "",
          "**Images:**\n- https://o.io/l.png\n- https://o.io/1.png\n" >>,
       \* Links: Homepage, Repository, Documentation
       << "## Links\n**Homepage:** https://o.io/h\n",
          "## Links\n",
          "## Links\n**Homepage:** o.io\n" >>,
       << "**Repository:** https://o.io/r\n",
          "" >>,
       << "**Documentation:** https://o.io/d\n",
          "" >> >>

IssueNumbers == <<2, 0, 7>>
Timestamps == <<ValidTimestamp, "2026-02-03", "2025-01-01T00:00:00.5Z">>

NumBodyParts == Len(BodyParts)
\* The parts of an input: those of the body, then the issue number and the
\* two timestamps
NumParts == NumBodyParts + 3

NumVariants(k) ==
    IF k <= NumBodyParts THEN Len(BodyParts[k])
    ELSE IF k = NumBodyParts + 1 THEN Len(IssueNumbers)
    ELSE Len(Timestamps)

\* At most this many parts of an input differ from the well-formed variant
MaxDeviations == 2

\* The choices of a variant for the parts 1..k with at most budget deviations
RECURSIVE Choices(_, _)
Choices(k, budget) ==
    IF k = 0 THEN {<<>>}
    ELSE {Append(c, 1) : c \in Choices(k - 1, budget)}
         \cup (IF budget = 0 THEN {}
               ELSE {Append(c, v) : c \in Choices(k - 1, budget - 1), v \in 2..NumVariants(k)})

BodyOf(c) == ConcatAll([k \in 1..NumBodyParts |-> BodyParts[k][c[k]]])

Init ==
    /\ \E c \in Choices(NumParts, MaxDeviations) :
          /\ issueBody = BodyOf(c)
          /\ issueNumber = IssueNumbers[c[NumBodyParts + 1]]
          /\ createdAt = Timestamps[c[NumBodyParts + 2]]
          /\ updatedAt = Timestamps[c[NumBodyParts + 3]]
    /\ stage = "Start"
    /\ title = "" /\ slug = "" /\ sections = None /\ extracted = None
    /\ missing = "" /\ rawProject = None /\ issues = <<>> /\ result = None
    /\ SlugIdle /\ RestIdle

Next ==
    \/ ExtractTitle
    \/ ExtractSections
    \/ CheckRequiredFields
    \/ ValidateSchema

Spec == Init /\ [][Next]_vars

\* ---------------------------------------------------------------------------
\* Specification SlugSpec: both slug helpers applied to a text, then to their
\* own output
\* ---------------------------------------------------------------------------

\* Characters of the texts: a lowercase and an uppercase letter, a digit, white
\* space, a hyphen, an underscore and punctuation
SlugAlphabet == "aB1 -_!"
MaxTextLen == 3

SlugInit ==
    /\ text \in StringsUpTo(SlugAlphabet, MaxTextLen)
    /\ slugP = NULL /\ slugP2 = NULL /\ slugF = NULL /\ slugF2 = NULL
    /\ ParseIdle /\ RestIdle

ApplySlugify ==
    /\ slugP = NULL
    /\ slugP' = slugify(text)
    /\ UNCHANGED <<text, slugP2, slugF, slugF2, parseVars, restVars>>

ReapplySlugify ==
    /\ slugP # NULL /\ slugP2 = NULL
    /\ slugP2' = slugify(slugP)
    /\ UNCHANGED <<text, slugP, slugF, slugF2, parseVars, restVars>>

ApplySlugifyExported ==
    /\ slugF = NULL
    /\ slugF' = slugifyExported(text)
    /\ UNCHANGED <<text, slugP, slugP2, slugF2, parseVars, restVars>>

ReapplySlugifyExported ==
    /\ slugF # NULL /\ slugF2 = NULL
    /\ slugF2' = slugifyExported(slugF)
    /\ UNCHANGED <<text, slugP, slugP2, slugF, parseVars, restVars>>

SlugNext ==
    \/ ApplySlugify
    \/ ReapplySlugify
    \/ ApplySlugifyExported
    \/ ReapplySlugifyExported

SlugSpec == SlugInit /\ [][SlugNext]_vars

\* ---------------------------------------------------------------------------
\* Specification ExtractSpec: parseIssueBody on short documents, a title line
\* followed by a few lines that one of the sections is made of
\* ---------------------------------------------------------------------------

TitleLine == "# T"

\* Lines around the Tags heading: headings in several spellings, a line that
\* only looks like a heading, horizontal rules, and a list of tags
TagsLines ==
    {"## Tags", "  # TAGS ", "#### Tags", "## Media", "---", " _*_ ", "A, B"}

\* Lines of an Organization section: the Name key in its spellings, with the
\* value on the line, on the next line or missing
OrganizationLines ==
    {"**Name:** Org", "**Name:**", "Name:", "name: **Org2**", "**Name**:", " Org4 "}

\* Lines of a Project Status section: the Notes marker in its spellings, a line
\* of notes, an empty line and another field
StatusLines ==
    {"**Notes:** a *b*", "**Notes:**", "**NOTES** n4", "line 1", "", "**State:** active"}

\* Lines of a Media section: the Logo and Images markers with and without a
\* URL, and lines with one or two URLs
MediaLines ==
    {"**Logo:** https://o.io/l.png", "**Logo:**", "**Images:**",
     "- https://o.io/1.png https://o.io/l.png", "![a](http://o.io/2.png) x",
     "**images** https://o.io/1.png"}

\* Lines of a Description section
DescriptionLines ==
    {"A tool.", "  Second  line. ", "", "\t", "- item", "**bold**"}

\* At most this many lines follow the title in a document around the Tags
\* heading, and the heading of any other section
MaxHeadingLines == 3
MaxSectionLines == 3

\* All sequences of at most n elements of S
RECURSIVE SeqsUpTo(_, _)
SeqsUpTo(S, n) ==
    IF n = 0 THEN {<<>>}
    ELSE LET shorter == SeqsUpTo(S, n - 1)
         IN shorter \cup {Append(q, x) : q \in shorter, x \in S}

\* The title line, the heading of a section and its lines
SectionDocs(heading, S) ==
    {Join(<<TitleLine, heading>> \o q, "\n") : q \in SeqsUpTo(S, MaxSectionLines)}

ExtractDocs ==
    {Join(<<TitleLine>> \o q, "\n") : q \in SeqsUpTo(TagsLines, MaxHeadingLines)}
      \cup SectionDocs("## Organization", OrganizationLines)
      \cup SectionDocs("## Project Status", StatusLines)
      \cup SectionDocs("## Media", MediaLines)
      \cup SectionDocs("## Description", DescriptionLines)

ExtractInit ==
    /\ issueBody \in ExtractDocs
    /\ issueNumber = 2 /\ createdAt = ValidTimestamp /\ updatedAt = ValidTimestamp
    /\ stage = "Start"
    /\ title = "" /\ slug = "" /\ sections = None /\ extracted = None
    /\ missing = "" /\ rawProject = None /\ issues = <<>> /\ result = None
    /\ SlugIdle /\ RestIdle

\* None of these documents holds every required field, so that none of them
\* reaches the schema
ExtractNext ==
    \/ ExtractTitle
    \/ ExtractSections
    \/ CheckRequiredFields

ExtractSpec == ExtractInit /\ [][ExtractNext]_vars


\* ---------------------------------------------------------------------------
\* parseIssueBody as one function
\* ---------------------------------------------------------------------------

\* if (!validationResult.success) return null; return validationResult.data
ValidatedData(validationResult) ==
    IF validationResult.success THEN validationResult.data ELSE None

\* The required-field check, then the draft and the schema
parseFields(t, e, number, created, updated) ==
    IF firstMissingField(t, e) # "" THEN None
    ELSE ValidatedData(safeParse(buildRawProject(t, slugify(t), e, number, created, updated)))

\* if (!title) return null; otherwise the sections are read
parseTitled(t, body, number, created, updated) ==
    IF t = "" THEN None
    ELSE parseFields(t, extractAll(body), number, created, updated)

\* parseIssueBody(issueBody, issueNumber, createdAt, updatedAt): null or the
\* validated record
parseIssueBody(body, number, created, updated) ==
    parseTitled(extractTitle(body), body, number, created, updated)

\* ---------------------------------------------------------------------------
\* Specification BatchSpec: main() of fetch-projects.ts, from the issues
\* fetched to the file written
\* ---------------------------------------------------------------------------

\* The body of an issue as the API sends it: null, a string, or (against the
\* declared type) a value that is neither
NullBody == [type |-> "null", value |-> ""]
StringBody(s) == [type |-> "string", value |-> s]
ObjectBody == [type |-> "object", value |-> ""]

\* The template filled in well, but for the variant v of its part k
TemplateWith(k, v) == BodyOf([j \in 1..NumBodyParts |-> IF j = k THEN v ELSE 1])

\* The bodies of the issues of a run: two documents that parse, no body, an
\* empty one, one that is no string, one without a heading, one without a
\* usage
IssueBodies ==
    << StringBody(TemplateWith(1, 1)),
       NullBody,
       StringBody(TemplateWith(2, 5)),
       ObjectBody,
       StringBody("Just text.\n"),
       StringBody(""),
       StringBody(TemplateWith(7, 2)) >>

MaxBatch == 3

\* The issues come newest first: the numbers fall along the list
IssueAt(i, n, b) ==
    [number |-> n + 1 - i,
     body |-> IssueBodies[b],
     created_at |-> IF i % 2 = 1 THEN ValidTimestamp ELSE Timestamps[3],
     updated_at |-> ValidTimestamp]

IssueLists ==
    UNION {{[i \in 1..n |-> IssueAt(i, n, bs[i])] : bs \in [1..n -> 1..Len(IssueBodies)]}
           : n \in 0..MaxBatch}

\* !issue.body: null and the empty string
HasNoBody(issue) ==
    issue.body.type = "null" \/ (issue.body.type = "string" /\ issue.body.value = "")

\* issueBody.match(...) of a value that is no string throws a TypeError
ParseThrows(issue) == issue.body.type # "string"

\* Mutation of parseProjectFromIssue: the parser keeps the creation time of the
\* issue it accepted last
parseProjectFromIssueShared(issue) ==
    IF HasNoBody(issue) THEN None
    ELSE IF ParseThrows(issue) THEN None
    ELSE parseIssueBody(issue.body.value, issue.number,
                        IF projects = <<>> THEN issue.created_at
                        ELSE projects[Len(projects)].timestamps.created_at,
                        issue.updated_at)

\* parseProjectFromIssue(issue): the record, or null without a body, after a
\* failed parse and after an exception
parseProjectFromIssue(issue) ==
    IF HasNoBody(issue) THEN None
    ELSE IF ParseThrows(issue) THEN None
    ELSE parseIssueBody(issue.body.value, issue.number, issue.created_at, issue.updated_at)

\* Mutation of PushOutcome: the number of a rejected issue is not kept
PushOutcomeAcceptedOnly(project, issue) ==
    /\ projects' = IF project # None THEN Append(projects, Get(project)) ELSE projects
    /\ failedIssues' = failedIssues

\* if (project) projects.push(project); else failedIssues.push(issue.number)
PushOutcome(project, issue) ==
    IF project # None
    THEN projects' = Append(projects, Get(project)) /\ failedIssues' = failedIssues
    ELSE failedIssues' = Append(failedIssues, issue.number) /\ projects' = projects

\* One turn of the loop over the issues
ProcessIssue ==
    /\ writtenFile = None
    /\ issueIndex < Len(fetchedIssues)
    /\ issueIndex' = issueIndex + 1
    /\ PushOutcome(parseProjectFromIssue(fetchedIssues[issueIndex + 1]),
                   fetchedIssues[issueIndex + 1])
    /\ UNCHANGED <<fetchedIssues, writtenFile, servedFile, loaded, notBatchVars>>

\* writeProjectsFile(projects), after the loop
WriteProjectsFile ==
    /\ writtenFile = None
    /\ issueIndex = Len(fetchedIssues)
    /\ writtenFile' = Some([projects |-> projects])
    /\ UNCHANGED <<fetchedIssues, issueIndex, projects, failedIssues, servedFile, loaded,
                   notBatchVars>>

\* ---------------------------------------------------------------------------
\* The file as JSON text and the front end that loads it
\* ---------------------------------------------------------------------------

\* The value of a character of Digits
DigitValue(c) == (CHOOSE i \in 1..Len(Digits) : CharAt(Digits, i) = c) - 1

\* The number written by a string of digits
RECURSIVE NumberOf(_)
NumberOf(digits) ==
    IF digits = "" THEN 0
    ELSE NumberOf(SubSeq(digits, 1, Len(digits) - 1)) * 10
         + DigitValue(CharAt(digits, Len(digits)))

\* The escape sequence of a character inside a JSON string
EscapeChar(c) ==
    IF c = "\"" THEN "\\\""
    ELSE IF c = "\\" THEN "\\\\"
    ELSE IF c = "\n" THEN "\\n"
    ELSE IF c = "\t" THEN "\\t"
    ELSE c

\* The character an escape sequence stands for, by its second character
UnescapeChar(c) == IF c = "n" THEN "\n" ELSE IF c = "t" THEN "\t" ELSE c

\* JSON.stringify of a string: the literal with its quotes
JsonQuote(s) == "\"" \o ConcatAll([i \in 1..Len(s) |-> EscapeChar(CharAt(s, i))]) \o "\""

\* JSON.parse of a string literal
JsonUnquote(literal) ==
    LET decode[p \in 2..Len(literal)] ==
            IF p >= Len(literal) THEN ""
            ELSE IF CharAt(literal, p) = "\\"
            THEN UnescapeChar(CharAt(literal, p + 1)) \o decode[p + 2]
            ELSE CharAt(literal, p) \o decode[p + 1]
    IN decode[2]

\* JSON.stringify of a positive integer: its digits
RECURSIVE JsonNumber(_)
JsonNumber(n) ==
    IF n < 10 THEN CharAt(Digits, n + 1)
    ELSE JsonNumber(n \div 10) \o CharAt(Digits, (n % 10) + 1)

QuoteEach(list) == [i \in 1..Len(list) |-> JsonQuote(list[i])]
UnquoteEach(list) == [i \in 1..Len(list) |-> JsonUnquote(list[i])]

\* A record with every value as JSON text, key by key
StringifyProject(r) ==
    [id |-> JsonQuote(r.id),
     issue_number |-> JsonNumber(r.issue_number),
     title |-> JsonQuote(r.title),
     slug |-> JsonQuote(r.slug),
     description |-> JsonQuote(r.description),
     organization |-> [name |-> JsonQuote(r.organization.name),
                       short_name |-> JsonQuote(r.organization.short_name),
                       url |-> JsonQuote(r.organization.url)],
     status |-> [state |-> JsonQuote(r.status.state),
                 usage |-> JsonQuote(r.status.usage),
                 notes |-> JsonQuote(r.status.notes)],
     tags |-> QuoteEach(r.tags),
     media |-> [logo |-> JsonQuote(r.media.logo), images |-> QuoteEach(r.media.images)],
     links |-> [homepage |-> JsonQuote(r.links.homepage),
                repository |-> JsonQuote(r.links.repository),
                documentation |-> JsonQuote(r.links.documentation)],
     timestamps |-> [created_at |-> JsonQuote(r.timestamps.created_at),
                     last_updated_at |-> JsonQuote(r.timestamps.last_updated_at)]]

\* The record read back from its JSON text
ParseProjectJson(j) ==
    [id |-> JsonUnquote(j.id),
     issue_number |-> NumberOf(j.issue_number),
     title |-> JsonUnquote(j.title),
     slug |-> JsonUnquote(j.slug),
     description |-> JsonUnquote(j.description),
     organization |-> [name |-> JsonUnquote(j.organization.name),
                       short_name |-> JsonUnquote(j.organization.short_name),
                       url |-> JsonUnquote(j.organization.url)],
     status |-> [state |-> JsonUnquote(j.status.state),
                 usage |-> JsonUnquote(j.status.usage),
                 notes |-> JsonUnquote(j.status.notes)],
     tags |-> UnquoteEach(j.tags),
     media |-> [logo |-> JsonUnquote(j.media.logo), images |-> UnquoteEach(j.media.images)],
     links |-> [homepage |-> JsonUnquote(j.links.homepage),
                repository |-> JsonUnquote(j.links.repository),
                documentation |-> JsonUnquote(j.links.documentation)],
     timestamps |-> [created_at |-> JsonUnquote(j.timestamps.created_at),
                     last_updated_at |-> JsonUnquote(j.timestamps.last_updated_at)]]

\* JSON.stringify(data, null, 2) of a projects document
JsonStringify(data) ==
    [projects |-> [i \in 1..Len(data.projects) |-> StringifyProject(data.projects[i])]]

\* response.json()
JsonParse(content) ==
    [projects |-> [i \in 1..Len(content.projects) |-> ParseProjectJson(content.projects[i])]]

\* The issues z.array(projectSchema) finds in the records from the k-th on
RECURSIVE ArrayIssues(_, _)
ArrayIssues(records, k) ==
    IF k > Len(records) THEN <<>>
    ELSE projectSchema(records[k]) \o ArrayIssues(records, k + 1)

\* Mutation of parseProjectsData: the records with issues are left out
parseProjectsDataValidOnly(data) ==
    ParseResult([projects |-> SelectSeq(data.projects, LAMBDA r : projectSchema(r) = <<>>)],
                <<>>)

\* parseProjectsData(data): projectsDataSchema.parse, which throws with the
\* issues of all records (no data then)
parseProjectsData(data) == ParseResult(data, ArrayIssues(data.projects, 1))

\* A record no schema accepts
InvalidRecord ==
    [Get(parseIssueBody(TemplateWith(1, 1), 9, ValidTimestamp, ValidTimestamp))
        EXCEPT !.title = ""]

\* The document as it was written, and as it may stand after an edit by
\* hand: one record with a state that does not exist, or one more record
\* without a title
ServedDocuments(data) ==
    {data}
    \cup {[projects |-> [data.projects EXCEPT ![k].status.state = "done"]]
             : k \in 1..Len(data.projects)}
    \cup {[projects |-> Append(data.projects, InvalidRecord)]}

\* fetchProjects() of src/lib/api.ts: the file is fetched, read as JSON and
\* validated
FetchProjects ==
    /\ writtenFile # None
    /\ loaded = None
    /\ \E data \in ServedDocuments(Get(writtenFile)) :
          /\ servedFile' = Some(JsonStringify(data))
          /\ loaded' = Some(parseProjectsData(JsonParse(Get(servedFile'))))
    /\ UNCHANGED <<fetchedIssues, issueIndex, projects, failedIssues, writtenFile,
                   notBatchVars>>

BatchInit ==
    /\ fetchedIssues \in IssueLists
    /\ issueIndex = 0 /\ projects = <<>> /\ failedIssues = <<>> /\ writtenFile = None
    /\ servedFile = None /\ loaded = None
    /\ IdleBut("batch")

BatchNext == ProcessIssue \/ WriteProjectsFile \/ FetchProjects

BatchSpec == BatchInit /\ [][BatchNext]_vars

\* ---------------------------------------------------------------------------
\* Specification CliSpec: parse-issue.ts run as a command
\* ---------------------------------------------------------------------------

\* The digits s starts with
LeadingDigits(s, end) == IF end = 0 THEN s ELSE SubSeq(s, 1, end - 1)

\* The number of the digits after the sign, NaN (null) without a digit
ParseIntSigned(sign, digits) == IF digits = "" THEN None ELSE Some(sign * NumberOf(digits))

ParseIntTrimmed(t) ==
    IF t # "" /\ CharAt(t, 1) \in {"-", "+"}
    THEN ParseIntSigned(IF CharAt(t, 1) = "-" THEN -1 ELSE 1,
                        LeadingDigits(From(t, 2), FirstCharNot(From(t, 2), 1, DigitSet)))
    ELSE ParseIntSigned(1, LeadingDigits(t, FirstCharNot(t, 1, DigitSet)))

\* parseInt(s, 10): white space, a sign, then the digits up to the first
\* other character
parseInt(s) == ParseIntTrimmed(TrimStart(s))

\* args.indexOf(flag), counted from 1; 0 when absent
IndexOf(args, flag) ==
    IF \E i \in 1..Len(args) : args[i] = flag
    THEN CHOOSE i \in 1..Len(args) : args[i] = flag /\ \A j \in 1..(i - 1) : args[j] # flag
    ELSE 0

\* getArg(flags): the argument after the first flag that is present and has
\* one, undefined (null) otherwise
RECURSIVE GetArgFrom(_, _, _)
GetArgAt(args, flags, k, idx) ==
    IF idx # 0 /\ idx < Len(args) THEN Some(args[idx + 1])
    ELSE GetArgFrom(args, flags, k + 1)

GetArgFrom(args, flags, k) ==
    IF k > Len(flags) THEN None
    ELSE GetArgAt(args, flags, k, IndexOf(args, flags[k]))

getArg(args, flags) == GetArgFrom(args, flags, 1)

\* value || fallback for an optional string
OrDefault(value, fallback) ==
    IF value = None \/ Get(value) = "" THEN fallback ELSE Get(value)

\* A line of text printed, and a value printed as JSON
TextLine(t) == [text |-> t, json |-> None]
JsonLine(v) == [text |-> "", json |-> Some(v)]

UsageText == "Usage: bun run parse-issue.ts <issue-body-file> [options]"

\* fs.readFileSync(filePath, "utf-8"): the content, or null when it throws
ReadFile(filePath) == IF filePath = "issue.md" THEN cliFile ELSE None

WantsHelp(args) == \E i \in 1..Len(args) : args[i] \in {"--help", "-h"}

\* !filePath
NoFilePath(args) == IF args = <<>> THEN TRUE ELSE args[1] = ""

\* Mutation of ReportResult: a failed parse ends the process like a success
ReportResultExitZero(parsed) ==
    IF parsed # None
    THEN stdout' = <<JsonLine(Get(parsed))>> /\ stderr' = <<>> /\ exitCode' = Some(0)
    ELSE /\ stdout' = <<>>
         /\ stderr' = <<TextLine("Error: Failed to parse issue body")>>
         /\ exitCode' = Some(0)

\* if (result) console.log(JSON.stringify(result, null, 2)); else the error
\* and process.exit(1)
ReportResult(parsed) ==
    IF parsed # None
    THEN stdout' = <<JsonLine(Get(parsed))>> /\ stderr' = <<>> /\ exitCode' = Some(0)
    ELSE /\ stdout' = <<>>
         /\ stderr' = <<TextLine("Error: Failed to parse issue body")>>
         /\ exitCode' = Some(1)

\* if (!issueNumber): NaN and 0; otherwise the parse and its report
ReportNumbered(body, number, created, updated) ==
    IF number = None \/ Get(number) = 0
    THEN /\ stdout' = <<>>
         /\ stderr' = <<TextLine("Error: --number is required")>>
         /\ exitCode' = Some(1)
    ELSE ReportResult(parseIssueBody(body, Get(number), created, updated))

\* --help or -h: the usage, exit code 0
ShowHelp ==
    /\ exitCode = None
    /\ WantsHelp(cliArgs)
    /\ stdout' = <<TextLine(UsageText)>>
    /\ stderr' = <<>>
    /\ exitCode' = Some(0)
    /\ UNCHANGED <<cliArgs, cliFile, cliNow, notCliVars>>

\* No first argument
RejectNoFilePath ==
    /\ exitCode = None
    /\ ~WantsHelp(cliArgs)
    /\ NoFilePath(cliArgs)
    /\ stdout' = <<>>
    /\ stderr' = <<TextLine("Error: issue-body-file argument is required"),
                   TextLine("Use --help for usage information")>>
    /\ exitCode' = Some(1)
    /\ UNCHANGED <<cliArgs, cliFile, cliNow, notCliVars>>

\* readFileSync throws: the catch block
RejectUnreadable ==
    /\ exitCode = None
    /\ ~WantsHelp(cliArgs)
    /\ ~NoFilePath(cliArgs)
    /\ ReadFile(cliArgs[1]) = None
    /\ stdout' = <<>>
    /\ stderr' = <<TextLine("Error: ENOENT: no such file or directory")>>
    /\ exitCode' = Some(1)
    /\ UNCHANGED <<cliArgs, cliFile, cliNow, notCliVars>>

\* The file is read: the flags, the parse, the output
ParseFile ==
    /\ exitCode = None
    /\ ~WantsHelp(cliArgs)
    /\ ~NoFilePath(cliArgs)
    /\ ReadFile(cliArgs[1]) # None
    /\ ReportNumbered(Get(ReadFile(cliArgs[1])),
                      parseInt(OrDefault(getArg(cliArgs, <<"--number", "-n">>), "0")),
                      OrDefault(getArg(cliArgs, <<"--created", "-c">>), cliNow[1]),
                      OrDefault(getArg(cliArgs, <<"--updated", "-u">>), cliNow[2]))
    /\ UNCHANGED <<cliArgs, cliFile, cliNow, notCliVars>>

\* The command lines
CliArgLists ==
    { <<>>,
      <<"">>,
      <<"--help">>,
      <<"issue.md", "-h">>,
      <<"issue.md">>,
      <<"issue.md", "--number", "2">>,
      <<"issue.md", "-n", "7">>,
      <<"issue.md", "--number">>,
      <<"issue.md", "--number", "abc">>,
      <<"issue.md", "--number", "0">>,
      <<"issue.md", "--number", "12abc">>,
      <<"issue.md", "--number", " -3">>,
      <<"issue.md", "--number", "-n", "2">>,
      <<"--number", "2", "issue.md">>,
      <<"other.md", "--number", "2">>,
      <<"issue.md", "--number", "2", "--created", ValidTimestamp>>,
      <<"issue.md", "-n", "2", "-u", ValidTimestamp, "-c", Timestamps[3]>>,
      <<"issue.md", "--number", "2", "--updated", "yesterday">>,
      <<"issue.md", "--number", "2", "--created", "">>,
      <<"issue.md", "--number", "2", "--created">> }

\* The file: unreadable, empty, a template document, a text without heading
CliFiles == {None, Some(""), Some(TemplateWith(1, 1)), Some("Just text.\n")}

\* The times of the clock, as toISOString writes them
ClockTimes == <<"2026-11-02T10:00:00.000Z", "2026-11-02T10:00:00.001Z">>

CliInit ==
    /\ cliArgs \in CliArgLists
    /\ cliFile \in CliFiles
    /\ cliNow \in {<<ClockTimes[i], ClockTimes[j]>> : i, j \in {1, 2}} \ {<<ClockTimes[2], ClockTimes[1]>>}
    /\ stdout = <<>> /\ stderr = <<>> /\ exitCode = None
    /\ IdleBut("cli")

CliNext == ShowHelp \/ RejectNoFilePath \/ RejectUnreadable \/ ParseFile

CliSpec == CliInit /\ [][CliNext]_vars

\* ---------------------------------------------------------------------------
\* Specifications RetrySpec and RetryLiveSpec: fetchWithTimeout of
\* src/lib/api.ts
\* ---------------------------------------------------------------------------

\* How a call of fetch settles: a response with its status, or a rejection
\* with an error (the abort of the timeout, a network failure)
Response(status) == [kind |-> "response", status |-> status, name |-> ""]
Rejection(name) == [kind |-> "error", status |-> 0, name |-> name]

\* new ApiError(..., response.status, response.statusText)
ApiErrorOf(status) == [kind |-> "error", status |-> status, name |-> "ApiError"]

UnknownError == [kind |-> "error", status |-> 0, name |-> "Error"]

ResponseStatuses == {200, 204, 302, 400, 404, 499, 500, 503}

\* response.ok
IsOk(response) == response.status >= 200 /\ response.status <= 299

\* Mutation of NoRetry: only the abort of the timeout ends the call
NoRetryAbortOnly(error) == error.name = "AbortError"

\* error.name === "AbortError" || (error instanceof ApiError &&
\* error.status >= 400 && error.status < 500)
NoRetry(error) ==
    \/ error.name = "AbortError"
    \/ (error.name = "ApiError" /\ error.status >= 400 /\ error.status < 500)

MaxRetries == 3

\* The catch block: the error is kept; it is thrown again at once, or the
\* call waits for retryDelay, or (after the last attempt) goes on to the end
\* of the loop
Catch(error) ==
    /\ lastError' = Some(error)
    /\ IF NoRetry(error)
       THEN /\ retryPhase' = "Thrown"
            /\ retryOutcome' = Some(error)
            /\ attempt' = attempt
       ELSE IF attempt < retries
       THEN /\ retryPhase' = "Waiting"
            /\ UNCHANGED <<retryOutcome, attempt>>
       ELSE /\ retryPhase' = "Loop"
            /\ attempt' = attempt + 1
            /\ retryOutcome' = retryOutcome

\* attempt <= retries: fetch is called
StartAttempt ==
    /\ retryPhase = "Loop"
    /\ attempt <= retries
    /\ retryPhase' = "Fetching"
    /\ fetchCalls' = fetchCalls + 1
    /\ UNCHANGED <<retries, attempt, lastError, retryOutcome, fetchLog, delays, notRetryVars>>

\* fetch resolves with a response: returned when ok, an ApiError otherwise
FetchResolves ==
    /\ retryPhase = "Fetching"
    /\ \E status \in ResponseStatuses :
          /\ fetchLog' = Append(fetchLog, Response(status))
          /\ IF IsOk(Response(status))
             THEN /\ retryPhase' = "Returned"
                  /\ retryOutcome' = Some(Response(status))
                  /\ UNCHANGED <<lastError, attempt>>
             ELSE Catch(ApiErrorOf(status))
    /\ UNCHANGED <<retries, fetchCalls, delays, notRetryVars>>

\* fetch rejects: the timeout aborted it, or the network failed
FetchRejects ==
    /\ retryPhase = "Fetching"
    /\ \E name \in {"AbortError", "TypeError"} :
          /\ fetchLog' = Append(fetchLog, Rejection(name))
          /\ Catch(Rejection(name))
    /\ UNCHANGED <<retries, fetchCalls, delays, notRetryVars>>

\* The timer of retryDelay fires: the next turn of the loop
DelayElapsed ==
    /\ retryPhase = "Waiting"
    /\ delays' = delays + 1
    /\ attempt' = attempt + 1
    /\ retryPhase' = "Loop"
    /\ UNCHANGED <<retries, lastError, retryOutcome, fetchCalls, fetchLog, notRetryVars>>

\* The loop has ended: throw lastError || new Error("Unknown error occurred")
ThrowLastError ==
    /\ retryPhase = "Loop"
    /\ attempt > retries
    /\ retryPhase' = "Thrown"
    /\ retryOutcome' = IF lastError # None THEN lastError ELSE Some(UnknownError)
    /\ UNCHANGED <<retries, attempt, lastError, fetchCalls, fetchLog, delays, notRetryVars>>

RetryInit ==
    /\ retries \in -1..MaxRetries
    /\ attempt = 0 /\ retryPhase = "Loop" /\ lastError = None /\ retryOutcome = None
    /\ fetchCalls = 0 /\ fetchLog = <<>> /\ delays = 0
    /\ IdleBut("retry")

RetryNext ==
    \/ StartAttempt
    \/ FetchResolves
    \/ FetchRejects
    \/ DelayElapsed
    \/ ThrowLastError

RetrySpec == RetryInit /\ [][RetryNext]_vars

\* Every awaited promise settles: fetch answers or is aborted by the timer of
\* the timeout, and the timer of retryDelay fires
RetryLiveSpec == RetrySpec /\ WF_vars(RetryNext)

\* ---------------------------------------------------------------------------
\* Specifications PageSpec and PageLiveSpec: fetchPublishableIssues of
\* scripts/fetch-projects.ts
\* ---------------------------------------------------------------------------

ISSUES_PER_PAGE == 100

\* s.includes(sub)
Includes(s, sub) ==
    \E i \in 1..(Len(s) - Len(sub) + 1) : SubSeq(s, i, i + Len(sub) - 1) = sub

\* The environment: [token, repository]
GoodEnv == [token |-> "t", repo |-> "o/r"]
Envs == {GoodEnv, [token |-> "", repo |-> "o/r"], [token |-> "t", repo |-> ""],
         [token |-> "t", repo |-> "o"], [token |-> "t", repo |-> "o/r/x"],
         [token |-> "t", repo |-> "/r"]}

\* The error thrown before any request, "" when the environment is complete
EnvError(env) ==
    IF env.token = "" THEN "GITHUB_TOKEN environment variable is required"
    ELSE IF env.repo = "" THEN "GITHUB_REPOSITORY environment variable is required"
    ELSE IF Len(Split(env.repo, "/")) # 2 \/ Split(env.repo, "/")[1] = ""
            \/ Split(env.repo, "/")[2] = ""
    THEN "Invalid GITHUB_REPOSITORY format: \"" \o env.repo \o "\". Expected \"owner/repo\"."
    ELSE ""

\* The issues with the label, newest first, are numbered count down to 1; the
\* API sends them in pages of per_page issues
MaxIssues == 201

PageOf(count, p) ==
    [i \in 1..(IF count - (p - 1) * ISSUES_PER_PAGE > ISSUES_PER_PAGE THEN ISSUES_PER_PAGE
               ELSE IF count - (p - 1) * ISSUES_PER_PAGE < 0 THEN 0
               ELSE count - (p - 1) * ISSUES_PER_PAGE)
        |-> count - (p - 1) * ISSUES_PER_PAGE - i + 1]

\* The answers that are no page: a status that is not OK, a content type that
\* is not JSON, a body that is no JSON, no answer at all
FailureAnswers ==
    {"401", "403", "404", "500", "text/html", "invalid json", "network"}

\* The error thrown inside the try block for an answer that is no page
AnswerError(answer) ==
    IF answer = "401"
    THEN "GitHub API authentication failed. Please check your GITHUB_TOKEN is valid."
    ELSE IF answer = "404" THEN "Repository o/r not found or token lacks access."
    ELSE IF answer = "403" THEN "GitHub API rate limit exceeded. Resets at: unknown"
    ELSE IF answer = "500" THEN "GitHub API request failed: 500 Internal Server Error"
    ELSE IF answer = "text/html" THEN "Expected JSON response from GitHub API, got: text/html"
    ELSE IF answer = "invalid json" THEN "Unexpected token < in JSON"
    ELSE "fetch failed"

\* The catch block: the errors of this function are thrown as they are, the
\* others as network errors
Rethrown(message) ==
    IF \/ Includes(message, "GITHUB_TOKEN")
       \/ Includes(message, "GITHUB_REPOSITORY")
       \/ Includes(message, "Invalid GITHUB_REPOSITORY format")
       \/ Includes(message, "GitHub API")
    THEN message
    ELSE "Network error fetching issues: " \o message

IssuesResult(list) == [kind |-> "issues", issues |-> list, message |-> ""]
ErrorResult(message) == [kind |-> "error", issues |-> <<>>, message |-> message]

\* Mutation of IsLastPage: a page is the last one when it is not longer than
\* a full page
IsLastPageWhenFull(issuesOfPage) == Len(issuesOfPage) <= ISSUES_PER_PAGE

\* issues.length === 0 || issues.length < ISSUES_PER_PAGE
IsLastPage(issuesOfPage) == Len(issuesOfPage) < ISSUES_PER_PAGE

\* The page is added to allIssues; the loop ends with a last page and the
\* list is returned, or goes on with the next page
TakePage(issuesOfPage) ==
    /\ allIssues' = allIssues \o issuesOfPage
    /\ IF IsLastPage(issuesOfPage)
       THEN /\ hasMore' = FALSE
            /\ page' = page
            /\ pagePhase' = "Returned"
            /\ pageResult' = Some(IssuesResult(allIssues'))
       ELSE /\ hasMore' = TRUE
            /\ page' = page + 1
            /\ pagePhase' = "Loop"
            /\ pageResult' = pageResult

\* The checks of the environment fail: an error before any request
RejectEnv ==
    /\ pagePhase = "Start"
    /\ EnvError(ghEnv) # ""
    /\ pagePhase' = "Thrown"
    /\ pageResult' = Some(ErrorResult(EnvError(ghEnv)))
    /\ UNCHANGED <<ghEnv, ghIssueCount, page, hasMore, allIssues, pageRequests,
                   pageResponses, notPageVars>>

\* while (hasMore): the page is requested
RequestPage ==
    /\ \/ pagePhase = "Start" /\ EnvError(ghEnv) = ""
       \/ pagePhase = "Loop" /\ hasMore
    /\ pageRequests' = Append(pageRequests, page)
    /\ pagePhase' = "Awaiting"
    /\ UNCHANGED <<ghEnv, ghIssueCount, page, hasMore, allIssues, pageResponses, pageResult,
                   notPageVars>>

\* The API answers with the page as JSON
ReceivePage ==
    /\ pagePhase = "Awaiting"
    /\ pageResponses' = Append(pageResponses, "page")
    /\ TakePage(PageOf(ghIssueCount, page))
    /\ UNCHANGED <<ghEnv, ghIssueCount, pageRequests, notPageVars>>

\* The API answers with something else, or not at all: an error is thrown
ReceiveFailure ==
    /\ pagePhase = "Awaiting"
    /\ \E answer \in FailureAnswers :
          /\ pageResponses' = Append(pageResponses, answer)
          /\ pageResult' = Some(ErrorResult(Rethrown(AnswerError(answer))))
    /\ pagePhase' = "Thrown"
    /\ UNCHANGED <<ghEnv, ghIssueCount, page, hasMore, allIssues, pageRequests, notPageVars>>

PageInit ==
    /\ ghEnv \in Envs
    /\ ghIssueCount \in 0..MaxIssues
    /\ page = 1 /\ hasMore = TRUE /\ allIssues = <<>>
    /\ pagePhase = "Start" /\ pageRequests = <<>> /\ pageResponses = <<>> /\ pageResult = None
    /\ IdleBut("page")

PageNext == RejectEnv \/ RequestPage \/ ReceivePage \/ ReceiveFailure

PageSpec == PageInit /\ [][PageNext]_vars

\* Every request is answered or fails
PageLiveSpec == PageSpec /\ WF_vars(PageNext)

\* ---------------------------------------------------------------------------
\* Specification ModalSpec: the image carousel of ProjectModal and the
\* selection of ProjectsGallery
\* ---------------------------------------------------------------------------

MaxImages == 3
\* The index is followed up to this value
MaxIndex == 4

ProjectIds == {"a", "b"}

\* A project of the gallery: its id and its images
ImagesOf(n) == [k \in 1..n |-> "https://o.io/" \o CharAt(Digits, k + 1) \o ".png"]
GalleryProjects == {[id |-> i, images |-> ImagesOf(n)] : i \in ProjectIds, n \in 0..MaxImages}

\* The projects shown as cards: two of them, in every combination
Catalogs == [1..2 -> GalleryProjects]

\* project?.id: undefined (NULL) without a project
IdOf(p) == IF p = 0 THEN NULL ELSE catalog[p].id

\* project.media.images.length of the selected project
ImageCount == Len(catalog[selectedProject].images)

\* prev === 0 ? length - 1 : prev - 1
PreviousIndex(prev, length) == IF prev = 0 THEN length - 1 ELSE prev - 1

\* prev === length - 1 ? 0 : prev + 1
NextIndex(prev, length) == IF prev = length - 1 THEN 0 ELSE prev + 1

\* A state setter was called with value: React renders again unless the state
\* is the same
SetCurrentImageIndex(value) ==
    /\ currentImageIndex' = value
    /\ uiPhase' = IF value = currentImageIndex THEN "Idle" ELSE "Render"

\* A card is clicked: setSelectedProject(project)
SelectProject ==
    /\ uiPhase = "Idle"
    /\ \E p \in 1..Len(catalog) :
          /\ p # selectedProject
          /\ selectedProject' = p
    /\ uiPhase' = "Render"
    /\ UNCHANGED <<catalog, currentImageIndex, effectId, rendered, notModalVars>>

\* Escape, the backdrop or the close button: onClose()
CloseModal ==
    /\ uiPhase = "Idle"
    /\ selectedProject # 0
    /\ selectedProject' = 0
    /\ uiPhase' = "Render"
    /\ UNCHANGED <<catalog, currentImageIndex, effectId, rendered, notModalVars>>

\* handleKeyDown: ArrowLeft and ArrowRight, with the modal open and at least
\* one image
PressArrowKey ==
    /\ uiPhase = "Idle"
    /\ selectedProject # 0
    /\ ImageCount # 0
    /\ currentImageIndex < MaxIndex
    /\ \E key \in {"ArrowLeft", "ArrowRight"} :
          SetCurrentImageIndex(IF key = "ArrowLeft"
                               THEN PreviousIndex(currentImageIndex, ImageCount)
                               ELSE NextIndex(currentImageIndex, ImageCount))
    /\ UNCHANGED <<catalog, selectedProject, effectId, rendered, notModalVars>>

\* The buttons "Previous image" and "Next image", shown with more than one
\* image
ClickArrowButton ==
    /\ uiPhase = "Idle"
    /\ selectedProject # 0
    /\ ImageCount > 1
    /\ currentImageIndex < MaxIndex
    /\ \E button \in {"Previous image", "Next image"} :
          SetCurrentImageIndex(IF button = "Previous image"
                               THEN PreviousIndex(currentImageIndex, ImageCount)
                               ELSE NextIndex(currentImageIndex, ImageCount))
    /\ UNCHANGED <<catalog, selectedProject, effectId, rendered, notModalVars>>

\* A dot of the indicator: setCurrentImageIndex(index)
ClickDot ==
    /\ uiPhase = "Idle"
    /\ selectedProject # 0
    /\ ImageCount > 1
    /\ \E index \in 0..(ImageCount - 1) : SetCurrentImageIndex(index)
    /\ UNCHANGED <<catalog, selectedProject, effectId, rendered, notModalVars>>

\* The components render with the state as it is and the result is committed
Render ==
    /\ uiPhase = "Render"
    /\ rendered' = Some([project |-> selectedProject, index |-> currentImageIndex])
    /\ uiPhase' = "Effects"
    /\ UNCHANGED <<catalog, selectedProject, currentImageIndex, effectId, notModalVars>>

\* useEffect(() => setCurrentImageIndex(0), [project?.id]): after the commit,
\* when the id differs from the one of the render before
ResetEffect(id) ==
    /\ effectId' = id
    /\ IF id # effectId
       THEN SetCurrentImageIndex(0)
       ELSE uiPhase' = "Idle" /\ currentImageIndex' = currentImageIndex

RunEffects ==
    /\ uiPhase = "Effects"
    /\ ResetEffect(IdOf(selectedProject))
    /\ UNCHANGED <<catalog, selectedProject, rendered, notModalVars>>

\* The page is mounted with no project selected; the effect has run once
ModalInit ==
    /\ catalog \in Catalogs
    /\ selectedProject = 0 /\ currentImageIndex = 0 /\ effectId = NULL
    /\ uiPhase = "Idle" /\ rendered = Some([project |-> 0, index |-> 0])
    /\ IdleBut("modal")

ModalNext ==
    \/ SelectProject
    \/ CloseModal
    \/ PressArrowKey
    \/ ClickArrowButton
    \/ ClickDot
    \/ Render
    \/ RunEffects

ModalSpec == ModalInit /\ [][ModalNext]_vars
\* ---------------------------------------------------------------------------
\* Properties of parseIssueBody (specification Spec)
\* ---------------------------------------------------------------------------

\* C1: when a document has a title and one of the seven required fields (title,
\* description, organization name, short name and url, status state, homepage)
\* extracts to an empty or white-space string, parseIssueBody returns no
\* record, builds no draft, does not reach the schema, and reports the first
\* such field in that order.
C1_FirstMissingFieldReported ==
    (extracted # None /\ stage # "SectionsExtracted") =>
        LET values == <<title, Get(extracted).description, Get(extracted).orgName,
                        Get(extracted).orgShortName, Get(extracted).orgUrl,
                        Get(extracted).statusState, Get(extracted).homepage>>
            names == <<"title", "description", "orgName", "orgShortName", "orgUrl",
                       "statusState", "homepage">>
            empties == {k \in 1..7 : Trim(values[k]) = ""}
        IN IF empties = {}
           THEN missing = ""
           ELSE /\ stage = "Rejected"
                /\ result = None /\ rawProject = None /\ issues = <<>>
                /\ \E k \in empties : (\A j \in empties : k <= j) /\ missing = names[k]

\* A call rejected for the organization name while the organization url is
\* missing as well
C1_Witness ==
    /\ stage = "Rejected" /\ title # "" /\ extracted # None
    /\ Get(extracted).orgName = "" /\ Get(extracted).orgUrl = ""
    /\ missing = "orgName"

\* The steps of the stages: forward in the order Start, TitleExtracted,
\* SectionsExtracted, RequiredFieldsChecked, or out to Rejected
C2_StageStep ==
    /\ <<stage, stage'>> \in
          {<<"Start", "TitleExtracted">>, <<"Start", "Rejected">>,
           <<"TitleExtracted", "SectionsExtracted">>,
           <<"SectionsExtracted", "RequiredFieldsChecked">>,
           <<"SectionsExtracted", "Rejected">>,
           <<"RequiredFieldsChecked", "Validated">>,
           <<"RequiredFieldsChecked", "Rejected">>}
    /\ stage' = "TitleExtracted" => title' # ""
    /\ stage' = "RequiredFieldsChecked" => missing' = ""
    /\ stage' = "Validated" => missing' = "" /\ issues' = <<>> /\ result' = rawProject'
    /\ stage' = "Rejected" => result' = None

C3_NoHeadingFailsAtOnce ==
    LET lines == Split(issueBody, "\n")
        isHeading(line) == /\ Len(line) >= 3
                           /\ CharAt(line, 1) = "#"
                           /\ CharAt(line, 2) \in {" ", "\t"}
                           /\ Trim(From(line, 3)) # ""
    IN (stage # "Start" /\ \A i \in 1..Len(lines) : ~isHeading(lines[i])) =>
           /\ stage = "Rejected"
           /\ title = "" /\ extracted = None /\ rawProject = None /\ result = None

\* A document without a title line that is rejected at once
C3_Witness ==
    /\ stage = "Rejected" /\ title = "" /\ extracted = None
    /\ ~StartsWith(issueBody, "#\n") /\ StartsWith(issueBody, "## ")

\* C4: a record that parseIssueBody returns has a positive issue number, a
\* title of 1 to 200 characters, a description of 1 to 2000, an organization
\* name that is not empty, a short name of 1 to 50 characters, tags of 1 to 50
\* characters each, a state and a usage of their enumerations, an organization
\* url and a homepage that are URLs, two ISO 8601 timestamps and a slug that
\* matches ^[a-z0-9-]+$; a draft that breaks one of these is not returned.
C4_ReturnedRecordIsValid ==
    LET slugChars == {"a", "b", "c", "d", "e", "f", "g", "h", "i", "j", "k", "l", "m",
                      "n", "o", "p", "q", "r", "s", "t", "u", "v", "w", "x", "y", "z",
                      "0", "1", "2", "3", "4", "5", "6", "7", "8", "9", "-"}
        satisfies(d) ==
            /\ d.issue_number > 0
            /\ Len(d.title) \in 1..200
            /\ Len(d.description) \in 1..2000
            /\ Len(d.organization.name) >= 1
            /\ Len(d.organization.short_name) \in 1..50
            /\ \A i \in 1..Len(d.tags) : Len(d.tags[i]) \in 1..50
            /\ d.status.state \in {"active", "paused", "archived"}
            /\ d.status.usage \in {"experimental", "used", "widely-used"}
            /\ IsUrl(d.organization.url)
            /\ IsUrl(d.links.homepage)
            /\ IsIsoDatetime(d.timestamps.created_at)
            /\ IsIsoDatetime(d.timestamps.last_updated_at)
            /\ Len(d.slug) >= 1
            /\ \A i \in 1..Len(d.slug) : CharAt(d.slug, i) \in slugChars
    IN /\ result # None => satisfies(Get(result))
       /\ (rawProject # None /\ ~satisfies(Get(rawProject))) => result = None

\* A record is returned
C4_Witness ==
    /\ stage = "Validated" /\ result # None
    /\ Get(result).title = "My Tool" /\ Get(result).slug = "my-tool"

\* C5: the schema accepts a draft only when its state is one of active,
\* paused, archived and its usage one of experimental, used, widely-used; any
\* other value fails validation with an issue on that field and is not
\* replaced; a state of paused raises no issue.
C5_EnumsAreClosed ==
    rawProject # None =>
        LET st == Get(rawProject).status
            stateOk == st.state \in {"active", "paused", "archived"}
            usageOk == st.usage \in {"experimental", "used", "widely-used"}
            has(path) == \E i \in 1..Len(issues) : issues[i].path = path
        IN /\ has("status.state") <=> ~stateOk
           /\ has("status.usage") <=> ~usageOk
           /\ ~(stateOk /\ usageOk) => stage = "Rejected" /\ result = None
           /\ result # None => Get(result).status = st

\* A draft with the state paused is accepted
C5_Witness ==
    /\ stage = "Validated" /\ result # None
    /\ Get(result).status.state = "paused"

\* C6: when the document gives no Usage value, the draft gets the usage
\* "unknown" and the schema rejects it: no record is returned for such a
\* document, and no returned record has a usage outside the enumeration.
C6_MissingUsageRejected ==
    /\ (extracted # None /\ Get(extracted).statusUsage = "") =>
          /\ result = None
          /\ stage # "Validated"
          /\ rawProject # None =>
                /\ Get(rawProject).status.usage = "unknown"
                /\ stage = "Rejected"
                /\ \E i \in 1..Len(issues) : issues[i].path = "status.usage"
    /\ result # None =>
          Get(result).status.usage \in {"experimental", "used", "widely-used"}

\* A document without a Usage line whose draft is rejected for its usage alone
C6_Witness ==
    /\ stage = "Rejected" /\ rawProject # None
    /\ Get(extracted).statusUsage = ""
    /\ Get(rawProject).status.usage = "unknown"
    /\ Len(issues) = 1 /\ issues[1].path = "status.usage"

\* C7: the repository, the documentation and the logo may each be the empty
\* string: a draft in which one of them is "" and every other field is valid
\* is accepted, so a document without a Repository line, a Documentation line
\* or a logo still yields a record, with "" in that field.
C7_EmptyOptionalAccepted ==
    rawProject # None =>
        LET d == Get(rawProject)
            emptyOptional ==
                (IF d.links.repository = "" THEN {"links.repository"} ELSE {})
                \cup (IF d.links.documentation = "" THEN {"links.documentation"} ELSE {})
                \cup (IF d.media.logo = "" THEN {"media.logo"} ELSE {})
        IN (\A i \in 1..Len(issues) : issues[i].path \in emptyOptional) =>
               stage = "Validated" /\ result = Some(d)

\* A document without a Repository line has come to the schema
C7_Witness ==
    /\ rawProject # None /\ stage \in {"Validated", "Rejected"}
    /\ Get(extracted).repository = ""
    /\ Get(rawProject).links.repository = ""

\* C8: for a malformed draft the schema returns a failure, with no record, and
\* the failure holds an issue keyed by the field for every field that breaks a
\* constraint, not for the first one alone; it holds no issue for a field that
\* breaks none.
C8_EveryViolationReported ==
    rawProject # None =>
        LET d == Get(rawProject)
            bad(path, breaks) == IF breaks THEN {path} ELSE {}
            violations ==
                bad("id", d.id = "")
                \cup bad("issue_number", d.issue_number <= 0)
                \cup bad("title", d.title = "" \/ Len(d.title) > 200)
                \cup bad("slug", ~MatchesSlugPattern(d.slug))
                \cup bad("description", d.description = "" \/ Len(d.description) > 2000)
                \cup bad("organization.name", d.organization.name = "")
                \cup bad("organization.short_name",
                         d.organization.short_name = "" \/ Len(d.organization.short_name) > 50)
                \cup bad("organization.url", ~IsUrl(d.organization.url))
                \cup bad("status.state", d.status.state \notin ProjectStateEnum)
                \cup bad("status.usage", d.status.usage \notin ProjectUsageEnum)
                \cup bad("tags", \E i \in 1..Len(d.tags) : Len(d.tags[i]) > 50)
                \cup {"tags." \o ToString(i - 1) : i \in {j \in 1..Len(d.tags) : d.tags[j] = ""}}
                \cup bad("media.logo", ~IsUrl(d.media.logo))
                \cup {"media.images." \o ToString(i - 1) :
                         i \in {j \in 1..Len(d.media.images) : ~IsUrl(d.media.images[j])}}
                \cup bad("links.homepage", ~IsUrl(d.links.homepage))
                \cup bad("links.repository", ~IsUrl(d.links.repository))
                \cup bad("links.documentation", ~IsUrl(d.links.documentation))
                \cup bad("timestamps.created_at", ~IsIsoDatetime(d.timestamps.created_at))
                \cup bad("timestamps.last_updated_at",
                         ~IsIsoDatetime(d.timestamps.last_updated_at))
        IN /\ {issues[i].path : i \in 1..Len(issues)} = violations
           /\ violations # {} => stage = "Rejected" /\ result = None
           /\ violations = {} => stage = "Validated" /\ result = Some(d)

\* A draft that breaks the constraints of two fields, both reported
C8_Witness ==
    /\ stage = "Rejected" /\ rawProject # None
    /\ Len(issues) = 2
    /\ issues[1].path = "title" /\ issues[2].path = "timestamps.created_at"

\* C10: the slug and the id parseIssueBody derives from a title are the title
\* in lower case, with every maximal run of characters that are neither
\* lowercase letters nor digits replaced by one hyphen, and without a leading
\* or a trailing hyphen.
C10_SlugOfTitle ==
    (stage # "Start" /\ title # "") =>
        LET hyphenated == NonAlnumRunsToHyphen(ToLowerCase(title))
            first == IF StartsWith(hyphenated, "-") THEN 2 ELSE 1
            last == IF EndsWith(hyphenated, "-") THEN Len(hyphenated) - 1 ELSE Len(hyphenated)
        IN /\ slug = SubSeq(hyphenated, first, last)
           /\ rawProject # None =>
                 Get(rawProject).slug = slug /\ Get(rawProject).id = slug

\* A title with punctuation and hyphens at its ends has been turned into a slug
C10_Witness ==
    /\ stage = "TitleExtracted" /\ title = "-My.Tool-" /\ slug # ""

\* ---------------------------------------------------------------------------
\* Properties of the slug helpers (specification SlugSpec)
\* ---------------------------------------------------------------------------

\* C9: both slug helpers are idempotent: slug(slug(s)) = slug(s) for every
\* string s, the empty string and strings without a letter or a digit
\* included.
C9_SlugIdempotent ==
    /\ slugP2 # NULL => slugP2 = slugP
    /\ slugF2 # NULL => slugF2 = slugF

\* The exported slugify applied to a string without a letter or a digit, and
\* then to its own output
C9_Witness ==
    text = "-" /\ slugF # NULL /\ slugF2 # NULL


\* ---------------------------------------------------------------------------
\* Properties of the records and of the values parsed from the sections
\* (specification Spec)
\* ---------------------------------------------------------------------------

\* C11: the slug of every record parseIssueBody returns holds only lowercase
\* letters, digits and hyphens, is not empty, and neither starts nor ends with
\* a hyphen.
C11_SlugOfRecordIsClean ==
    result # None =>
        LET s == Get(result).slug
        IN /\ Len(s) >= 1
           /\ \A i \in 1..Len(s) :
                 CharAt(s, i) \in CharsOf("abcdefghijklmnopqrstuvwxyz0123456789-")
           /\ CharAt(s, 1) # "-"
           /\ CharAt(s, Len(s)) # "-"

\* A record is returned for a title that begins and ends with punctuation
C11_Witness ==
    stage = "Validated" /\ result # None /\ title = "-My.Tool-"

\* C12: no entry of media.images equals media.logo, in the values taken from
\* the Media section, in the draft and in every record returned, wherever the
\* Logo and Images markers stand.
C12_LogoNotAmongImages ==
    LET excludes(media) == \A i \in 1..Len(media.images) : media.images[i] # media.logo
    IN /\ extracted # None => excludes(Get(extracted))
       /\ rawProject # None => excludes(Get(rawProject).media)
       /\ result # None => excludes(Get(result).media)

\* A record is returned for a document that lists the logo URL among its
\* images, the Images marker standing before the Logo marker
C12_Witness ==
    /\ result # None
    /\ Get(result).media.logo = "https://o.io/l.png"
    /\ Get(result).media.images = <<"https://o.io/1.png">>
    /\ Get(sections).mediaSection # None
    /\ Get(Get(sections).mediaSection).lines[1] = "**Images:**"
    /\ Get(Get(sections).mediaSection).lines[2] = "- https://o.io/l.png"

\* C16: the tags are the pieces between the commas of the raw text of the Tags
\* section, each trimmed, the empty ones dropped, in their order and with
\* duplicates kept; without a Tags section, or with an empty one, there are
\* none; the draft and every record returned hold these tags unchanged.
C16_TagsAsWritten ==
    extracted # None =>
        LET \* the pieces of raw from position p on
            piecesOf(raw) ==
                LET ends == {i \in 1..(Len(raw) + 1) : i = Len(raw) + 1 \/ CharAt(raw, i) = ","}
                    rest[p \in 1..(Len(raw) + 2)] ==
                        IF p = Len(raw) + 2 THEN <<>>
                        ELSE LET e == CHOOSE i \in ends : i >= p /\ \A j \in ends : j >= p => i <= j
                             IN <<Trim(SubSeq(raw, p, e - 1))>> \o rest[e + 1]
                IN rest[1]
            nonEmpty(piece) == piece # ""
            written(sec) ==
                IF sec = None THEN <<>> ELSE SelectSeq(piecesOf(Get(sec).raw), nonEmpty)
            same(tags) ==
                /\ Get(extracted).tags = tags
                /\ rawProject # None => Get(rawProject).tags = tags
                /\ result # None => Get(result).tags = tags
        IN /\ same(written(Get(sections).tagsSection))
           /\ Get(sections).tagsSection = Some([raw |-> "CoMapeo, Mapping, Spreadsheet",
                                               lines |-> <<"CoMapeo, Mapping, Spreadsheet">>])
                 => Get(extracted).tags = <<"CoMapeo", "Mapping", "Spreadsheet">>

\* A record is returned for a Tags section with an empty piece and the same
\* tag twice
C16_Witness ==
    /\ result # None
    /\ Get(sections).tagsSection # None
    /\ Get(Get(sections).tagsSection).raw = "a,, B ,a"
    /\ Get(result).tags = <<"a", "B", "a">>

\* ---------------------------------------------------------------------------
\* Properties of the extractors (specification ExtractSpec)
\* ---------------------------------------------------------------------------

\* C13: extractSection finds no section exactly when no line of the document,
\* trimmed, is one to three # characters, white space and a text that, trimmed
\* and in lower case, equals the name in lower case; otherwise the section
\* starts after the first such line, and no line from a later heading of the
\* same name on belongs to it.
C13_FirstHeadingWins ==
    sections # None =>
        LET \* whether t is h # characters, white space and a text
            marks(t, h) ==
                /\ Len(t) > h
                /\ \A k \in 1..h : CharAt(t, k) = "#"
                /\ CharAt(t, h + 1) \in {" ", "\t"}
            \* the texts, trimmed and in lower case, a trimmed line is a heading of
            textsOf(t) ==
                {ToLowerCase(Trim(SubSeq(t, h + 1, Len(t)))) : h \in {h \in 1..3 : marks(t, h)}}
            \* the lines that are a heading with the name, texts holding the
            \* heading texts of every line
            headings(texts, name) == {i \in DOMAIN texts : name \in texts[i]}
            startsAt(lines, sec, hs, at) ==
                /\ at + Len(sec.lines) <= Len(lines)
                /\ \A j \in 1..Len(sec.lines) : sec.lines[j] = Trim(lines[at + j])
                /\ \A k \in hs : k > at => at + Len(sec.lines) < k
            foundAmong(lines, sec, hs) ==
                IF hs = {} THEN sec = None
                ELSE sec # None
                     /\ startsAt(lines, Get(sec), hs, CHOOSE i \in hs : \A j \in hs : i <= j)
            found(lines, texts, sec, name) == foundAmong(lines, sec, headings(texts, name))
            foundIn(lines, texts, s) ==
                /\ found(lines, texts, s.descriptionSection, "description")
                /\ found(lines, texts, s.organizationSection, "organization")
                /\ found(lines, texts, s.statusSection, "project status")
                /\ found(lines, texts, s.tagsSection, "tags")
                /\ found(lines, texts, s.mediaSection, "media")
                /\ found(lines, texts, s.linksSection, "links")
            foundAll(lines, s) ==
                foundIn(lines, [i \in 1..Len(lines) |-> textsOf(Trim(lines[i]))], s)
        IN foundAll(Split(issueBody, "\n"), Get(sections))

\* A document with two headings named Tags, in different spellings, the
\* second one followed by a line
C13_Witness ==
    /\ issueBody = "# T\n## Tags\n  # TAGS \nA, B"
    /\ sections # None
    /\ Get(sections).tagsSection = Some([raw |-> "", lines |-> <<>>])

\* C14: a section holds exactly the lines after its heading up to, and without,
\* the first later line that, trimmed, is a heading line (one to three #, then
\* white space) or a horizontal rule (three or more of -, * and _ and nothing
\* else), or up to the last line; lines holds each of them trimmed, and raw is
\* those lines joined by line breaks and trimmed.
C14_SectionEndsAtHeadingOrRule ==
    sections # None =>
        LET isHeading(t) ==
                \E h \in 1..3 : /\ Len(t) > h
                                /\ \A k \in 1..h : CharAt(t, k) = "#"
                                /\ CharAt(t, h + 1) \in {" ", "\t"}
            isRule(t) ==
                Len(t) >= 3 /\ \A k \in 1..Len(t) : CharAt(t, k) \in {"-", "*", "_"}
            ends(t) == isHeading(t) \/ isRule(t)
            \* the lines after line at from which on a section would end
            enders(lines, at) == {i \in (at + 1)..Len(lines) : ends(Trim(lines[i]))}
            \* the number of lines after line at that belong to the section
            size(lines, at, es) ==
                IF es = {} THEN Len(lines) - at
                ELSE (CHOOSE i \in es : \A j \in es : i <= j) - at - 1
            holdsTo(lines, sec, at, n) ==
                /\ Len(sec.lines) = n
                /\ \A j \in 1..n : sec.lines[j] = Trim(lines[at + j])
                /\ sec.raw = Trim(Join(SubSeq(lines, at + 1, at + n), "\n"))
                /\ \A j \in 1..Len(sec.lines) : ~ends(sec.lines[j])
            holds(lines, sec, at) == holdsTo(lines, sec, at, size(lines, at, enders(lines, at)))
            follows(lines, sec, name) ==
                sec # None => holds(lines, Get(sec), SectionStart(lines, name))
            followsAll(lines, s) ==
                /\ follows(lines, s.descriptionSection, "Description")
                /\ follows(lines, s.organizationSection, "Organization")
                /\ follows(lines, s.statusSection, "Project Status")
                /\ follows(lines, s.tagsSection, "Tags")
                /\ follows(lines, s.mediaSection, "Media")
                /\ follows(lines, s.linksSection, "Links")
        IN followsAll(Split(issueBody, "\n"), Get(sections))

\* A Tags section of one line that a horizontal rule ends
C14_Witness ==
    /\ issueBody = "# T\n## Tags\nA, B\n---"
    /\ sections # None
    /\ Get(sections).tagsSection = Some([raw |-> "A, B", lines |-> <<"A, B">>])

\* C15: extractKeyValue gives "" for an absent section and for one without a
\* line for the key. Otherwise it takes the first line made of up to two *, the
\* key in any case, up to two * and a colon, and gives the text after the
\* colon, trimmed and without bold markers at its ends; when that text is
\* empty, whether or not the key stands in bold markers, it gives the next
\* line, trimmed and without bold markers at its ends.
C15_KeyValueOrNextLine ==
    extracted # None =>
        LET isKeyLine(line, key, n1, n2) ==
                /\ Len(line) >= n1 + Len(key) + n2 + 1
                /\ \A k \in 1..n1 : CharAt(line, k) = "*"
                /\ ToLowerCase(SubSeq(line, n1 + 1, n1 + Len(key))) = ToLowerCase(key)
                /\ \A k \in 1..n2 : CharAt(line, n1 + Len(key) + k) = "*"
                /\ CharAt(line, n1 + Len(key) + n2 + 1) = ":"
            keyLines(lines, key) ==
                {i \in 1..Len(lines) :
                    \E n1 \in 0..2, n2 \in 0..2 : isKeyLine(lines[i], key, n1, n2)}
            unbold(v) ==
                SubSeq(v, IF StartsWith(v, "**") THEN 3 ELSE 1,
                          IF EndsWith(v, "**") THEN Len(v) - 2 ELSE Len(v))
            clean(v) == Trim(unbold(Trim(v)))
            afterColon(line) ==
                SubSeq(line, (CHOOSE k \in 1..Len(line) :
                                 CharAt(line, k) = ":"
                                 /\ \A j \in 1..(k - 1) : CharAt(line, j) # ":") + 1,
                       Len(line))
            valueOr(lines, i, v) ==
                IF v # "" THEN v
                ELSE IF i + 1 <= Len(lines) THEN clean(lines[i + 1])
                ELSE ""
            valueAt(lines, i) == valueOr(lines, i, clean(afterColon(lines[i])))
            valueAmong(lines, ks) ==
                IF ks = {} THEN "" ELSE valueAt(lines, CHOOSE i \in ks : \A j \in ks : i <= j)
            value(sec, key) ==
                IF sec = None THEN "" ELSE valueAmong(Get(sec).lines, keyLines(Get(sec).lines, key))
        IN /\ Get(extracted).orgName = value(Get(sections).organizationSection, "Name")
           /\ Get(extracted).orgShortName
                 = value(Get(sections).organizationSection, "Short name")
           /\ Get(extracted).statusState = value(Get(sections).statusSection, "State")
           /\ Get(extracted).statusUsage = value(Get(sections).statusSection, "Usage")

\* A key in bold markers with nothing after its colon, the value on the next
\* line
C15_Witness ==
    /\ issueBody = "# T\n## Organization\n**Name:**\n Org4 "
    /\ extracted # None
    /\ Get(extracted).orgName = "Org4"

\* The notes parseNotes gives for the Project Status section are "" without a
\* section and without a line that begins with **notes in any case; otherwise
\* they are the text after the first colon of the first such line, trimmed and
\* without its asterisks, if that is not empty, then the lines after it up to,
\* and without, the first line that begins with ** (when keepEmpty holds all of
\* them, otherwise those that are not empty), joined by single spaces and
\* trimmed.
C17_NotesAre(keepEmpty) ==
    extracted # None =>
        LET noStars(s) == ConcatAll([i \in 1..Len(s) |->
                                        IF CharAt(s, i) = "*" THEN "" ELSE CharAt(s, i)])
            colons(line) == {k \in 1..Len(line) : CharAt(line, k) = ":"}
            afterFirst(line, cs) ==
                IF cs = {} THEN ""
                ELSE Trim(noStars(SubSeq(line, (CHOOSE k \in cs : \A j \in cs : k <= j) + 1,
                                         Len(line))))
            sameLine(line) == afterFirst(line, colons(line))
            kept(line) == keepEmpty \/ line # ""
            upTo(lines, m, stops) ==
                SelectSeq(SubSeq(lines, m + 1,
                                 IF stops = {} THEN Len(lines)
                                 ELSE (CHOOSE k \in stops : \A j \in stops : k <= j) - 1),
                          kept)
            following(lines, m) ==
                upTo(lines, m, {k \in (m + 1)..Len(lines) : StartsWith(lines[k], "**")})
            spaced(parts) ==
                ConcatAll([k \in 1..Len(parts) |-> IF k = 1 THEN parts[k] ELSE " " \o parts[k]])
            joined(first, rest) ==
                Trim(spaced(IF first # "" THEN <<first>> \o rest ELSE rest))
            notesAmong(lines, ms) ==
                IF ms = {} THEN ""
                ELSE LET m == CHOOSE k \in ms : \A j \in ms : k <= j
                     IN joined(sameLine(lines[m]), following(lines, m))
            notes(sec) ==
                IF sec = None THEN ""
                ELSE notesAmong(Get(sec).lines,
                                {k \in 1..Len(Get(sec).lines) :
                                    StartsWith(ToLowerCase(Get(sec).lines[k]), "**notes")})
        IN Get(extracted).statusNotes = notes(Get(sections).statusSection)

C18_ImagesAfterMarker ==
    extracted # None =>
        LET \* the positions of a word at which a URL starts
            starts(word, lower) ==
                {p \in 1..Len(word) :
                    \/ Len(word) > p + 6 /\ SubSeq(lower, p, p + 6) = "http://"
                    \/ Len(word) > p + 7 /\ SubSeq(lower, p, p + 7) = "https://"}
            urlFrom(word, ps) ==
                IF ps = {} THEN <<>>
                ELSE <<SubSeq(word, CHOOSE p \in ps : \A q \in ps : p <= q, Len(word))>>
            urlOf(word) == urlFrom(word, starts(word, ToLowerCase(word)))
            \* the URLs of the words of a line
            urlsOfWords(words) ==
                LET rest[k \in 1..(Len(words) + 1)] ==
                        IF k > Len(words) THEN <<>> ELSE urlOf(words[k]) \o rest[k + 1]
                IN rest[1]
            \* the URLs of the lines after line m
            urlsAfter(lines, m) ==
                LET rest[k \in 1..(Len(lines) + 1)] ==
                        IF k > Len(lines) THEN <<>>
                        ELSE urlsOfWords(Split(lines[k], " ")) \o rest[k + 1]
                IN rest[m + 1]
            candidates(lines, ms) ==
                urlsAfter(lines, IF ms = {} THEN 0 ELSE CHOOSE k \in ms : \A j \in ms : k <= j)
            notLogo(url) == url # Get(extracted).logo
            images(sec) ==
                IF sec = None THEN <<>>
                ELSE SelectSeq(candidates(Get(sec).lines,
                                          {k \in 1..Len(Get(sec).lines) :
                                              StartsWith(ToLowerCase(Get(sec).lines[k]),
                                                         "**images")}),
                               notLogo)
        IN Get(extracted).images = images(Get(sections).mediaSection)

\* Two lines with the same two URLs after the Images marker, and no logo
C18_Witness ==
    /\ extracted # None
    /\ issueBody = "# T\n## Media\n**Images:**\n- https://o.io/1.png https://o.io/l.png"
                       \o "\n- https://o.io/1.png https://o.io/l.png"
    /\ Get(extracted).logo = ""
    /\ Get(extracted).images = <<"https://o.io/1.png", "https://o.io/l.png",
                                 "https://o.io/1.png", "https://o.io/l.png">>

\* C19: the logo is the first URL on the first line of the Media section that
\* begins with **logo, in any case, or, when that line holds no URL, the first
\* URL on the line right after it; it is "" without a Media section, without
\* such a line, and when neither of the two lines holds a URL.
C19_LogoOnMarkerOrNextLine ==
    extracted # None =>
        LET \* whether a URL starts at position p of a line
            urlAt(line, lower, p) ==
                \/ /\ Len(line) > p + 6 /\ SubSeq(lower, p, p + 6) = "http://"
                   /\ CharAt(line, p + 7) # " "
                \/ /\ Len(line) > p + 7 /\ SubSeq(lower, p, p + 7) = "https://"
                   /\ CharAt(line, p + 8) # " "
            \* the text from position p to the next space or the end of the line
            wordAt(line, p, spaces) ==
                SubSeq(line, p, IF spaces = {} THEN Len(line)
                                ELSE (CHOOSE k \in spaces : \A j \in spaces : k <= j) - 1)
            firstAmong(line, ps) ==
                IF ps = {} THEN ""
                ELSE LET p == CHOOSE k \in ps : \A j \in ps : k <= j
                     IN wordAt(line, p, {k \in p..Len(line) : CharAt(line, k) = " "})
            \* the first URL of a line, "" when it holds none
            firstUrl(line) ==
                firstAmong(line, {p \in 1..Len(line) : urlAt(line, ToLowerCase(line), p)})
            orNext(lines, m, onLine) ==
                IF onLine # "" THEN onLine
                ELSE IF m + 1 <= Len(lines) THEN firstUrl(lines[m + 1])
                ELSE ""
            logoAmong(lines, ms) ==
                IF ms = {} THEN ""
                ELSE LET m == CHOOSE k \in ms : \A j \in ms : k <= j
                     IN orNext(lines, m, firstUrl(lines[m]))
            logo(sec) ==
                IF sec = None THEN ""
                ELSE logoAmong(Get(sec).lines,
                               {k \in 1..Len(Get(sec).lines) :
                                   StartsWith(ToLowerCase(Get(sec).lines[k]), "**logo")})
        IN Get(extracted).logo = logo(Get(sections).mediaSection)

\* A Logo marker without a URL after a line with a URL; the next line holds
\* two URLs
C19_Witness ==
    /\ issueBody = "# T\n## Media\n![a](http://o.io/2.png) x\n**Logo:**\n"
                       \o "- https://o.io/1.png https://o.io/l.png"
    /\ extracted # None
    /\ Get(extracted).logo = "https://o.io/1.png"

\* C20: the description is made of the lines of the raw text of the Description
\* section, each trimmed, the empty ones left out, joined in their order by two
\* line breaks; without a section, or without a line that is not empty, it is
\* "", and the required-field check then fails on description.
C20_DescriptionParagraphs ==
    extracted # None =>
        LET \* the lines of raw, trimmed
            linesOf(raw) ==
                LET ends == {i \in 1..(Len(raw) + 1) : i = Len(raw) + 1 \/ CharAt(raw, i) = "\n"}
                    rest[p \in 1..(Len(raw) + 2)] ==
                        IF p = Len(raw) + 2 THEN <<>>
                        ELSE LET e == CHOOSE i \in ends : i >= p /\ \A j \in ends : j >= p => i <= j
                             IN <<Trim(SubSeq(raw, p, e - 1))>> \o rest[e + 1]
                IN rest[1]
            nonEmpty(line) == line # ""
            paragraphs(parts) ==
                ConcatAll([k \in 1..Len(parts) |->
                              IF k = 1 THEN parts[k] ELSE "\n\n" \o parts[k]])
            described(sec) ==
                IF sec = None THEN "" ELSE paragraphs(SelectSeq(linesOf(Get(sec).raw), nonEmpty))
            failsOn(description) ==
                (description = "" /\ stage # "SectionsExtracted")
                    => stage = "Rejected" /\ missing = "description" /\ result = None
        IN /\ Get(extracted).description = described(Get(sections).descriptionSection)
           /\ failsOn(described(Get(sections).descriptionSection))

\* A Description section of two lines with white space around them and an
\* empty line between them
C20_Witness ==
    /\ issueBody = "# T\n## Description\n  Second  line. \n\n- item"
    /\ extracted # None
    /\ Get(extracted).description = "Second  line.\n\n- item"

\* ---------------------------------------------------------------------------
\* Properties of the record returned for a template document (specification
\* Spec)
\* ---------------------------------------------------------------------------

\* The record r holds the values written in the lines of a document
C21_ValuesOf(lines, r) ==
    LET written(line) == \E i \in 1..Len(lines) : lines[i] = line
    IN /\ \A p \in {<<"# My Tool", "My Tool", "my-tool">>,
                    <<"# CoMapeo Config Spreadsheet Plugin",
                      "CoMapeo Config Spreadsheet Plugin",
                      "comapeo-config-spreadsheet-plugin">>} :
             lines[1] = p[1] => r.title = p[2] /\ r.slug = p[3]
       /\ written("**Name:** Org") => r.organization.name = "Org"
       /\ written("**Short name:** org") => r.organization.short_name = "org"
       /\ written("**Website:** https://o.io") => r.organization.url = "https://o.io"
       /\ \A s \in {"active", "paused"} :
             written("**State:** " \o s) => r.status.state = s
       /\ written("**Usage:** used") => r.status.usage = "used"
       /\ written("A, B") => r.tags = <<"A", "B">>
       /\ written("CoMapeo, Mapping, Spreadsheet")
             => r.tags = <<"CoMapeo", "Mapping", "Spreadsheet">>
       /\ written("**Homepage:** https://o.io/h") => r.links.homepage = "https://o.io/h"
       /\ written("**Repository:** https://o.io/r") => r.links.repository = "https://o.io/r"

C22_CallerValuesKept ==
    result # None =>
        /\ Get(result).id = Get(result).slug
        /\ Get(result).issue_number = issueNumber
        /\ Get(result).timestamps.created_at = createdAt
        /\ Get(result).timestamps.last_updated_at = updatedAt

\* A record returned for issue 7, created and last updated at different times
C22_Witness ==
    /\ stage = "Validated" /\ result # None
    /\ issueNumber = 7 /\ createdAt # updatedAt
    /\ Get(result).id = "my-tool"
    /\ Get(result).issue_number = 7
    /\ Get(result).timestamps = [created_at |-> createdAt, last_updated_at |-> updatedAt]

\* ---------------------------------------------------------------------------
\* Properties of the batch run (specification BatchSpec)
\* ---------------------------------------------------------------------------

\* The bodies that follow the template with valid values
C23_ParsingBodies == {StringBody(TemplateWith(1, 1)), StringBody(TemplateWith(2, 5))}

C23_NumbersOf(list) == [i \in 1..Len(list) |-> list[i].number]

\* C23: the batch takes every fetched issue once and in order; an issue
\* without a body, one whose parse fails and one whose parse throws are each
\* rejected alone, their number appended to the failure list, and the run goes
\* on; every issue taken is in exactly one of the accepted projects and the
\* failure list; the document written at the end holds the accepted records
\* in the order of the fetch.
C23_EveryIssueOnceInOrder ==
    LET Parses(issue) == issue.body \in C23_ParsingBodies
        Fails(issue) == issue.body \notin C23_ParsingBodies
        taken == SubSeq(fetchedIssues, 1, issueIndex)
        accepted == [i \in 1..Len(projects) |-> projects[i].issue_number]
    IN /\ issueIndex \in 0..Len(fetchedIssues)
       /\ accepted = C23_NumbersOf(SelectSeq(taken, Parses))
       /\ failedIssues = C23_NumbersOf(SelectSeq(taken, Fails))
       /\ \A i \in 1..issueIndex :
             (\E j \in 1..Len(projects) : accepted[j] = fetchedIssues[i].number)
             # (\E j \in 1..Len(failedIssues) : failedIssues[j] = fetchedIssues[i].number)
       /\ writtenFile # None =>
             /\ issueIndex = Len(fetchedIssues)
             /\ Get(writtenFile) = [projects |-> projects]

\* A run over three issues of which the second has a body that makes the
\* parser throw: the file holds the records of the first and the third
C23_Witness ==
    /\ Len(fetchedIssues) = 3 /\ fetchedIssues[2].body = ObjectBody
    /\ writtenFile # None
    /\ Len(Get(writtenFile).projects) = 2
    /\ Get(writtenFile).projects[1].issue_number = 3
    /\ Get(writtenFile).projects[2].issue_number = 1
    /\ failedIssues = <<2>>

\* The records accepted for the issue, without what the caller passed in
C24_TextOutcome(issue) ==
    {[projects[k] EXCEPT !.issue_number = 0,
                         !.timestamps = [created_at |-> "", last_updated_at |-> ""]]
        : k \in {k \in 1..Len(projects) : projects[k].issue_number = issue.number}}

C24_CallerValues(issue) ==
    {<<projects[k].issue_number, projects[k].timestamps>>
        : k \in {k \in 1..Len(projects) : projects[k].issue_number = issue.number}}

C25_Requests ==
    { <<<<"issue.md", "--number", "2">>, 2, "", "">>,
      <<<<"issue.md", "-n", "7">>, 7, "", "">>,
      <<<<"issue.md", "--number", "12abc">>, 12, "", "">>,
      <<<<"issue.md", "--number", "2", "--created", ValidTimestamp>>, 2, ValidTimestamp, "">>,
      <<<<"issue.md", "-n", "2", "-u", ValidTimestamp, "-c", Timestamps[3]>>,
        2, Timestamps[3], ValidTimestamp>>,
      <<<<"issue.md", "--number", "2", "--created", "">>, 2, "", "">>,
      <<<<"issue.md", "--number", "2", "--created">>, 2, "", "">> }

\* The output of a run that succeeded for the request q
C25_Printed(q) ==
    /\ exitCode = Some(0) /\ stderr = <<>>
    /\ Len(stdout) = 1 /\ stdout[1].json # None
    /\ Get(stdout[1].json).title = "My Tool"
    /\ Get(stdout[1].json).issue_number = q[2]
    /\ Get(stdout[1].json).timestamps.created_at = (IF q[3] = "" THEN cliNow[1] ELSE q[3])
    /\ Get(stdout[1].json).timestamps.last_updated_at = (IF q[4] = "" THEN cliNow[2] ELSE q[4])

\* C25: the command prints the JSON record to standard output only when the
\* parse succeeds; without the file argument, with a file that cannot be read,
\* without an issue number and after a failed parse it prints no record,
\* writes an error message and exits with a non-zero code; the current time
\* stands for a created or updated flag that is absent.
C25_CliOutcome ==
    IF exitCode = None THEN stdout = <<>> /\ stderr = <<>>
    ELSE IF \E i \in 1..Len(cliArgs) : cliArgs[i] \in {"--help", "-h"}
    THEN /\ exitCode = Some(0)
         /\ \A i \in 1..Len(stdout) : stdout[i].json = None
    ELSE IF cliFile = Some(TemplateWith(1, 1)) /\ \E q \in C25_Requests : q[1] = cliArgs
    THEN \A q \in C25_Requests : q[1] = cliArgs => C25_Printed(q)
    ELSE /\ exitCode # Some(0)
         /\ stdout = <<>>
         /\ stderr # <<>>

\* A record printed with the creation time of the flag and the current time
\* as the time of the last update
C25_Witness ==
    /\ cliArgs = <<"issue.md", "--number", "2", "--created", ValidTimestamp>>
    /\ exitCode = Some(0) /\ Len(stdout) = 1 /\ stdout[1].json # None
    /\ Get(stdout[1].json).timestamps.created_at = ValidTimestamp
    /\ Get(stdout[1].json).timestamps.last_updated_at = ClockTimes[2]

\* ---------------------------------------------------------------------------
\* The value of a key whose line is followed by the line of another key
\* (specification Spec)
\* ---------------------------------------------------------------------------

\* The keys of the Organization section whose marker line may stand empty, with
\* the name of their value
C26_Keys == {<<"**Name:**", "orgName">>, <<"**Short name:**", "orgShortName">>}

\* The marker lines of other fields that may follow
C26_MarkerLines == {"**Short name:** org", "**Website:** https://o.io"}

\* The values e hold the line after the empty marker line of a key, wherever
\* the lines of the Organization section have one followed by the marker line
\* of another field
C26_Taken(lines, e, missingField) ==
    \A k \in C26_Keys :
        \A i \in 1..(Len(lines) - 1) :
            (lines[i] = k[1] /\ lines[i + 1] \in C26_MarkerLines)
            => /\ e[k[2]] = SubSeq(lines[i + 1], 3, Len(lines[i + 1]))
               /\ missingField # k[2]

C27_Failed(settled) ==
    settled.kind = "error" \/ settled.status < 200 \/ settled.status > 299

\* The failures after which no further attempt is made: the abort of the
\* timeout and a 4xx response
C27_Final(settled) ==
    \/ (settled.kind = "error" /\ settled.name = "AbortError")
    \/ (settled.kind = "response" /\ settled.status \in 400..499)

\* The error thrown for a failed call of fetch
C27_ErrorOf(settled) ==
    IF settled.kind = "response"
    THEN [kind |-> "error", status |-> settled.status, name |-> "ApiError"]
    ELSE settled

\* A step of the call: fetch is called again only when every earlier call has
\* settled with a failure that allows it, after one wait for each, and no more
\* than retries times; nothing happens after the call has ended
C27_Step ==
    /\ fetchCalls' \in {fetchCalls, fetchCalls + 1}
    /\ fetchCalls' = fetchCalls + 1 =>
          /\ Len(fetchLog) = fetchCalls
          /\ fetchCalls <= retries
          /\ delays = fetchCalls
          /\ \A i \in 1..Len(fetchLog) : C27_Failed(fetchLog[i]) /\ ~C27_Final(fetchLog[i])
    /\ retryPhase \in {"Returned", "Thrown"} => UNCHANGED retryVars

\* The state of a call that has ended
C27_Ended ==
    /\ Len(fetchLog) = fetchCalls
    /\ retryOutcome # None
    /\ IF fetchLog = <<>>
       THEN retries < 0 /\ retryPhase = "Thrown" /\ Get(retryOutcome) = UnknownError
       ELSE /\ \A i \in 1..(Len(fetchLog) - 1) :
                  C27_Failed(fetchLog[i]) /\ ~C27_Final(fetchLog[i])
            /\ IF C27_Failed(fetchLog[Len(fetchLog)])
               THEN /\ retryPhase = "Thrown"
                    /\ Get(retryOutcome) = C27_ErrorOf(fetchLog[Len(fetchLog)])
                    /\ C27_Final(fetchLog[Len(fetchLog)]) \/ Len(fetchLog) = retries + 1
               ELSE /\ retryPhase = "Returned"
                    /\ Get(retryOutcome) = fetchLog[Len(fetchLog)]

\* C27: fetchWithTimeout calls fetch at most retries + 1 times and always
\* ends; it returns the first OK response and calls fetch no more; it calls
\* fetch again only after a failure that is neither the abort of the timeout
\* nor a 4xx response (those are thrown at once), and after waiting retryDelay;
\* when every attempt has failed it throws the error of the last one.
C27_RetryContract ==
    /\ [][C27_Step]_vars
    /\ [](fetchCalls <= IF retries < 0 THEN 0 ELSE retries + 1)
    /\ [](retryPhase \in {"Returned", "Thrown"} => C27_Ended)
    /\ <>(retryPhase \in {"Returned", "Thrown"})

\* Three attempts with two retries, none of them successful: the error of the
\* third is thrown
C27_Witness ==
    /\ retries = 2 /\ fetchCalls = 3 /\ delays = 2
    /\ fetchLog = <<Response(500), Rejection("TypeError"), Response(503)>>
    /\ retryPhase = "Thrown"
    /\ retryOutcome = Some(ApiErrorOf(503))

\* ---------------------------------------------------------------------------
\* Properties of fetchPublishableIssues (specification PageLiveSpec)
\* ---------------------------------------------------------------------------

\* The number of issues the API holds for page p
C28_SizeOfPage(p) ==
    IF ghIssueCount >= p * 100 THEN 100
    ELSE IF ghIssueCount <= (p - 1) * 100 THEN 0
    ELSE ghIssueCount - (p - 1) * 100

\* A step of the call: the page requested is the one after the last page
\* requested, every page before was received and was full; nothing happens
\* after the call has ended
C28_Step ==
    /\ pageRequests' # pageRequests =>
          /\ pageRequests' = Append(pageRequests, Len(pageRequests) + 1)
          /\ Len(pageResponses) = Len(pageRequests)
          /\ \A p \in 1..Len(pageRequests) :
                pageResponses[p] = "page" /\ C28_SizeOfPage(p) = 100
    /\ pagePhase \in {"Returned", "Thrown"} => UNCHANGED pageVars

\* The state of a call that has returned: the pages 1 to k were requested, k
\* the first page with fewer than 100 issues, and the list holds all issues
C28_Returned ==
    /\ pageResult # None
    /\ Get(pageResult).kind = "issues"
    /\ Get(pageResult).issues = [i \in 1..ghIssueCount |-> ghIssueCount + 1 - i]
    /\ pageRequests = [p \in 1..(ghIssueCount \div 100 + 1) |-> p]
    /\ \A p \in 1..Len(pageRequests) :
          pageResponses[p] = "page" /\ (C28_SizeOfPage(p) < 100 <=> p = Len(pageRequests))

\* The state of a call that has thrown: no list, and the environment was
\* incomplete or the last request was not answered with a page
C28_Thrown ==
    /\ pageResult # None
    /\ Get(pageResult).kind = "error"
    /\ Get(pageResult).issues = <<>>
    /\ Get(pageResult).message # ""
    /\ IF pageRequests = <<>> THEN ghEnv # GoodEnv
       ELSE /\ Len(pageResponses) = Len(pageRequests)
            /\ pageResponses[Len(pageResponses)] # "page"

\* C28: fetchPublishableIssues requests the pages 1, 2, 3, ... in order, none
\* skipped and none twice, stops at the first page with fewer than 100 issues
\* (an empty one included) and returns all pages received, joined in order;
\* for a finite set of issues it ends; an answer that is not OK or not JSON
\* makes it throw, and no partial list is returned.
C28_Pagination ==
    /\ [][C28_Step]_vars
    /\ [](pagePhase = "Returned" => C28_Returned)
    /\ [](pagePhase = "Thrown" => C28_Thrown)
    /\ []((pageResponses # <<>> /\ pageResponses[Len(pageResponses)] # "page")
             => pagePhase = "Thrown")
    /\ <>(pagePhase \in {"Returned", "Thrown"})

\* 200 issues: two full pages and an empty third one
C28_Witness ==
    /\ ghIssueCount = 200 /\ pagePhase = "Returned"
    /\ pageRequests = <<1, 2, 3>>
    /\ pageResult # None
    /\ Len(Get(pageResult).issues) = 200
    /\ Get(pageResult).issues[101] = 100

\* ---------------------------------------------------------------------------
\* Properties of the image carousel (specification ModalSpec)
\* ---------------------------------------------------------------------------

\* C29: whenever the carousel is rendered for a project with images,
\* currentImageIndex is a valid index of the images of that project (0 <= index
\* < images.length), Next and Previous wrapping around and the index being
\* reset to 0 when the project shown changes, also when another project is
\* selected while the modal is open.
C29_IndexValidWhenRendered ==
    (rendered # None /\ Get(rendered).project # 0) =>
        (Len(catalog[Get(rendered).project].images) > 0
            => /\ Get(rendered).index >= 0
               /\ Get(rendered).index < Len(catalog[Get(rendered).project].images))

\* The modal rendered for a project with one image and the index 2 the
\* project shown before was left with; the two projects have different ids and
\* the reset effect has not run yet
C29_Witness ==
    /\ catalog[1].id # catalog[2].id
    /\ uiPhase = "Effects"
    /\ rendered = Some([project |-> 2, index |-> 2])
    /\ Len(catalog[2].images) = 1
    /\ effectId = catalog[1].id

\* ---------------------------------------------------------------------------
\* C30  Validation is idempotent on its own output, and the front end takes
\*      or rejects the document as a whole
\* ---------------------------------------------------------------------------

\* The served text is the text of the document the build wrote
C30_ServedAsWritten == servedFile = Some(JsonStringify(Get(writtenFile)))

\* Every returned record, validated again: accepted with itself as the data
C30_AcceptedAgain ==
    \A i \in 1..Len(projects) :
        safeParse(projects[i]) = [success |-> TRUE, data |-> Some(projects[i]), issues |-> <<>>]

====
